---- MODULE Spec2Model ----
(***************************************************************************)
(* Membership dashboard: snapshot store and normalizer                     *)
(* (src/src/utils/scan_lists.py), geocode resolver and its rate limiter    *)
(* (src/src/utils/geocoding.py), list page (src/src/pages/list.py),        *)
(* retention tables (src/src/utils/retention.py), Action Network lookup    *)
(* (src/src/utils/action_network.py), background fetch (src/src/app.py).   *)
(*                                                                         *)
(* Strings are sequences of ASCII codes, so that sorted(), str.split and   *)
(* the ordering of ISO dates are computed the way Python computes them.    *)
(* A Python dict is a sequence of [k, v] items in insertion order.         *)
(***************************************************************************)
EXTENDS Integers, Sequences, FiniteSets, TLC

VARIABLES
    archive,      \* the *.zip file names present under the list directory
    pklState,     \* the <list>.pkl file: "missing", "ok" or "corrupt"
    pkl,          \* the dict pickled in <list>.pkl (when pklState = "ok")
    branchFile,   \* BRANCH_ZIPS_PATH.is_file()
    MEMB_LISTS,   \* scan_lists.MEMB_LISTS, the mapping of the last run that returned
    lastRun,      \* what the last get_membership_lists run did, kept while the
                  \* directory is as that run saw it
    geoFile,      \* geocoding.json: "missing" or the JSON object it holds
    geoCache,     \* the dict `cache` closed over by persist_to_file's new_func
    hasToken,     \* "MAPBOX" in config
    apiCalls,     \* per address: calls of mapbox_geocoder that reached the service
    boots,        \* process starts so far (each one runs the decorator again)
    lastCall,     \* what the last get_geocoding call did
    elapsed,      \* limiter: clock() - last_reset in seconds, capped at the period
    num_calls,    \* limiter: RateLimitDecorator.num_calls
    served,       \* calls of mapbox_geocoder's body since last_reset
    caller,       \* where the one caller of mapbox_geocoder stands
    lastView,     \* the last dashboard callback and its arguments
    raw,          \* normalizer: the table as read from the CSV
    frame,        \* normalizer: the table a data_cleaning call is given / returns
    stage,        \* normalizer: what has been applied to frame so far
    members,      \* retention: the rows of the table given to the retention functions
    pivoted,      \* retention: the function applied and the table it returned
    resolver,     \* workers: the module whose persist_to_file the workers call
    workers,      \* workers: per worker thread, where it stands in new_func and with what
    cache_lock,   \* workers: the thread holding action_network.cache_lock, 0 when free
    poolCache,    \* workers: the dict `cache` the workers share
    poolFile,     \* workers: the cache file the workers rewrite
    poolCalls,    \* workers: per parameter, calls of original_func so far
    _fetch_state, \* app._fetch_state (src/src/app.py line 13)
    threads,      \* the threads that start_fetch has started, each at its statement of _run_fetch
    poll,         \* the page: fetch-list-poll.disabled and fetch-list-status.children
    n_clicks      \* clicks on fetch-list-button

storeVars == <<archive, pklState, pkl, branchFile, MEMB_LISTS, lastRun>>
geoVars == <<geoFile, geoCache, hasToken, apiCalls, boots, lastCall>>
limitVars == <<elapsed, num_calls, served, caller>>
pageVars == <<lastView>>
cleanVars == <<raw, frame, stage>>
retentionVars == <<members, pivoted>>
poolVars == <<resolver, workers, cache_lock, poolCache, poolFile, poolCalls>>
fetchVars == <<_fetch_state, threads, poll, n_clicks>>
vars == <<archive, pklState, pkl, branchFile, MEMB_LISTS, lastRun,
          geoFile, geoCache, hasToken, apiCalls, boots, lastCall,
          elapsed, num_calls, served, caller, lastView, raw, frame, stage,
          members, pivoted,
          resolver, workers, cache_lock, poolCache, poolFile, poolCalls,
          _fetch_state, threads, poll, n_clicks>>

----------------------------------------------------------------------------
(* Bounds *)

MaxFiles == 3       \* archives present at the same time
MaxApiCalls == 2    \* external calls counted per address
MaxBoots == 2       \* process starts

----------------------------------------------------------------------------
(* The variables of a part of the program that a specification does not use *)

NoCaller == [pc |-> "idle", waited |-> FALSE, wait |-> 0]
NoView == [op |-> "none", date_selected |-> <<>>, date_compare_selected |-> <<>>]
NoTable == [ok |-> FALSE]
NoPivot == [op |-> "none", table |-> [index |-> <<>>, columns |-> <<>>, values |-> <<>>]]

----------------------------------------------------------------------------
(* Python strings and dicts *)

\* str < str: lexicographic on the code points, a proper prefix is smaller
RECURSIVE StrLess(_, _)
StrLess(a, b) ==
    IF a = <<>> THEN b # <<>>
    ELSE IF b = <<>> THEN FALSE
    ELSE IF Head(a) # Head(b) THEN Head(a) < Head(b)
    ELSE StrLess(Tail(a), Tail(b))

Digits(ds) == [i \in DOMAIN ds |-> 48 + ds[i]]

Keys(d) == {d[i].k : i \in DOMAIN d}

Get(d, key) == d[CHOOSE i \in DOMAIN d : d[i].k = key].v

\* d[key] = val: an existing key keeps its position, a new one is appended
DictSet(d, key, val) ==
    IF key \in Keys(d)
    THEN [i \in DOMAIN d |-> IF d[i].k = key THEN [k |-> key, v |-> val] ELSE d[i]]
    ELSE Append(d, [k |-> key, v |-> val])

\* a | b: a's items, then b's, the right operand's value winning
RECURSIVE DictUnion(_, _)
DictUnion(a, b) ==
    IF b = <<>> THEN a
    ELSE DictUnion(DictSet(a, Head(b).k, Head(b).v), Tail(b))

\* the sequence without its i-th item
RECURSIVE Without(_, _)
Without(s, i) ==
    IF s = <<>> THEN <<>>
    ELSE IF i = 1 THEN Tail(s)
    ELSE <<Head(s)>> \o Without(Tail(s), i - 1)

\* sorted(strings, reverse=True)
RECURSIVE SortedStrReverse(_)
SortedStrReverse(s) ==
    IF s = <<>> THEN <<>>
    ELSE LET i == CHOOSE m \in DOMAIN s :
                      \A j \in DOMAIN s : ~StrLess(s[m], s[j]) /\ (s[j] = s[m] => m <= j)
         IN <<s[i]>> \o SortedStrReverse(Without(s, i))

\* sorted(d.items(), reverse=True): tuples compare by key first; keys are unique
RECURSIVE SortedItemsReverse(_)
SortedItemsReverse(s) ==
    IF s = <<>> THEN <<>>
    ELSE LET i == CHOOSE m \in DOMAIN s : \A j \in DOMAIN s : ~StrLess(s[m].k, s[j].k)
         IN <<s[i]>> \o SortedItemsReverse(Without(s, i))

----------------------------------------------------------------------------
(* Archive names and the date in them *)

ZipSuffix == <<46, 122, 105, 112>>                 \* ".zip"

ZipName(stem) == stem \o ZipSuffix

\* the archive names the model draws from
FileNames ==
    { ZipName(Digits(<<2, 0, 2, 2, 1, 2, 3, 1>>)),                       \* 20221231.zip
      ZipName(<<97, 95>> \o Digits(<<2, 0, 2, 3, 0, 1, 0, 1>>)),         \* a_20230101.zip
      ZipName(<<97, 95, 98, 95>> \o Digits(<<2, 0, 2, 3, 0, 1, 0, 1>>)), \* a_b_20230101.zip
      ZipName(<<97, 95>> \o Digits(<<2, 0, 2, 4, 0, 2, 2, 9>>)),         \* a_20240229.zip
      ZipName(<<97, 95>> \o Digits(<<2, 0, 2, 3, 0, 2, 2, 9>>)),         \* a_20230229.zip
      ZipName(<<97, 95, 120, 120>>) }                                    \* a_xx.zip

\* PurePath(filename).stem: the name up to its last dot (a leading dot is no suffix)
Stem(name) ==
    LET dots == {i \in DOMAIN name : name[i] = 46}
        last == IF dots = {} THEN 0 ELSE CHOOSE i \in dots : \A j \in dots : j <= i
    IN IF last <= 1 THEN name ELSE SubSeq(name, 1, last - 1)

\* s.split("_")[-1]
RECURSIVE LastSegment(_)
LastSegment(s) ==
    IF s = <<>> THEN <<>>
    ELSE IF s[Len(s)] = 95 THEN <<>>
    ELSE LastSegment(SubSeq(s, 1, Len(s) - 1)) \o <<s[Len(s)]>>

IsLeap(y) == (y % 4 = 0 /\ y % 100 # 0) \/ y % 400 = 0

DaysIn(y, m) ==
    IF m = 2 THEN (IF IsLeap(y) THEN 29 ELSE 28)
    ELSE IF m \in {4, 6, 9, 11} THEN 30 ELSE 31

\* pd.to_datetime(seg, format="%Y%m%d").date(): [ok, v = (year, month, day)];
\* ok is FALSE for the ValueError raised on text that is no date or lies
\* outside the Timestamp range
ParseYmd(seg) ==
    IF Len(seg) # 8 \/ \E i \in DOMAIN seg : seg[i] \notin 48..57
    THEN [ok |-> FALSE]
    ELSE LET n(i) == seg[i] - 48
             y == 1000 * n(1) + 100 * n(2) + 10 * n(3) + n(4)
             m == 10 * n(5) + n(6)
             d == 10 * n(7) + n(8)
         IN IF y \in 1678..2261 /\ m \in 1..12 /\ d \in 1..DaysIn(y, m)
            THEN [ok |-> TRUE, v |-> <<y, m, d>>]
            ELSE [ok |-> FALSE]

\* date.isoformat(): "YYYY-MM-DD"
IsoFormat(date) ==
    LET y == date[1]
        m == date[2]
        d == date[3]
    IN <<48 + (y \div 1000), 48 + ((y \div 100) % 10), 48 + ((y \div 10) % 10), 48 + (y % 10),
         45, 48 + (m \div 10), 48 + (m % 10),
         45, 48 + (d \div 10), 48 + (d % 10)>>

\* lines 160-161: [ok, v = the ISO date of the file name]; ok is FALSE for a ValueError
DateFromFilename(filename) ==
    LET parsed == ParseYmd(LastSegment(Stem(filename)))
    IN IF parsed.ok THEN [ok |-> TRUE, v |-> IsoFormat(parsed.v)] ELSE [ok |-> FALSE]

----------------------------------------------------------------------------
(* Snapshot store: src/src/utils/scan_lists.py *)

\* scan_memb_list_from_zip: the raw table read from an archive
RawTable(zip_file) == [src |-> zip_file, cleaned |-> FALSE, branch |-> FALSE]

\* data_cleaning: the normalized table (the same object, changed in place)
data_cleaning(df) == [df EXCEPT !.cleaned = TRUE]

\* faulty variant: the loop with the try around it: the first unparseable name ends it
RECURSIVE ScanLoopAborting(_, _)
ScanLoopAborting(files, memb_lists) ==
    IF files = <<>> THEN memb_lists
    ELSE LET zip_file == Head(files)
             date == DateFromFilename(zip_file)
         IN IF date.ok
            THEN ScanLoopAborting(Tail(files), DictSet(memb_lists, date.v, RawTable(zip_file)))
            ELSE memb_lists

\* the loop of scan_all_membership_lists over `files`, from memb_lists
RECURSIVE ScanLoop(_, _)
ScanLoop(files, memb_lists) ==
    IF files = <<>> THEN memb_lists
    ELSE LET zip_file == Head(files)
             date == DateFromFilename(zip_file)
         IN IF date.ok
            THEN ScanLoop(Tail(files), DictSet(memb_lists, date.v, RawTable(zip_file)))
            ELSE ScanLoop(Tail(files), memb_lists)     \* warning logged, file skipped

\* faulty variant: the files taken in the order glob() lists them
scan_unsorted(listing) == ScanLoop(listing, <<>>)

\* scan_all_membership_lists, `listing` being what glob() returned
scan_all_membership_lists(listing) == ScanLoop(SortedStrReverse(listing), <<>>)

\* get_pickled_dict: [ok, v]; ok is FALSE when pickle.load raises
get_pickled_dict ==
    IF pklState = "missing" THEN [ok |-> TRUE, v |-> <<>>]
    ELSE IF pklState = "ok" THEN [ok |-> TRUE, v |-> pkl]
    ELSE [ok |-> FALSE]

\* {k: v for k, v in d.items() if k not in other}
RECURSIVE NotIn(_, _)
NotIn(d, other) ==
    IF d = <<>> THEN <<>>
    ELSE IF Head(d).k \in Keys(other) THEN NotIn(Tail(d), other)
    ELSE <<Head(d)>> \o NotIn(Tail(d), other)

\* faulty variant: every scanned list counts as new
new_lists_unfiltered(memb_list_zips, pickled_lists) == memb_list_zips

\* line 182: the scanned lists that get cleaned
new_lists(memb_list_zips, pickled_lists) == NotIn(memb_list_zips, pickled_lists)

\* faulty variant: the merge without sorted()
merged_unsorted(cleaned_lists, pickled_lists) == DictUnion(cleaned_lists, pickled_lists)

\* line 186: the merge of the cleaned new lists and the pickled ones
merged_lists(cleaned_lists, pickled_lists) ==
    SortedItemsReverse(DictUnion(cleaned_lists, pickled_lists))

\* faulty variant: every scanned list is cleaned and replaces the pickled one of its date
integrate_preferring_scan(memb_list_zips, pickled_lists) ==
    LET cleaned == [i \in DOMAIN memb_list_zips |->
                       [k |-> memb_list_zips[i].k, v |-> data_cleaning(memb_list_zips[i].v)]]
    IN SortedItemsReverse(DictUnion(pickled_lists, cleaned))

\* integrate_new_membership_lists
integrate_new_membership_lists(memb_list_zips, pickled_lists) ==
    LET fresh == new_lists(memb_list_zips, pickled_lists)
        cleaned == [i \in DOMAIN fresh |-> [k |-> fresh[i].k, v |-> data_cleaning(fresh[i].v)]]
    IN merged_lists(cleaned, pickled_lists)

\* tagged_with_branches: every table gets its branch column
tagged_with_branches(memb_lists) ==
    [i \in DOMAIN memb_lists |->
        [k |-> memb_lists[i].k, v |-> [memb_lists[i].v EXCEPT !.branch = TRUE]]]

\* the orders in which glob() may list the files of a directory
Listings(files) ==
    {s \in [1..Cardinality(files) -> files] : \A i, j \in DOMAIN s : s[i] = s[j] => i = j}

NoRun == [status |-> "none", pklWas |-> "missing", zips |-> <<>>, cleaned |-> {}, tick |-> 0]

\* the list directory before the first run; the resolver is not used
InitStore ==
    /\ archive = {}
    /\ pklState = "missing"
    /\ pkl = <<>>
    /\ branchFile \in BOOLEAN
    /\ MEMB_LISTS = <<>>
    /\ lastRun = NoRun
    /\ geoFile = [exists |-> FALSE, json |-> <<>>]
    /\ geoCache = <<>>
    /\ hasToken = FALSE
    /\ apiCalls = [a \in {} |-> 0]
    /\ boots = 0
    /\ lastCall = <<>>
    /\ elapsed = 0
    /\ num_calls = 0
    /\ served = 0
    /\ caller = NoCaller
    /\ lastView = NoView
    /\ raw = NoTable
    /\ frame = NoTable
    /\ stage = "unused"
    /\ members = <<>>
    /\ pivoted = NoPivot
    /\ resolver = "none"
    /\ workers = <<>>
    /\ cache_lock = 0
    /\ poolCache = <<>>
    /\ poolFile = [exists |-> FALSE, json |-> <<>>]
    /\ poolCalls = <<>>
    /\ _fetch_state = [running |-> FALSE, status |-> <<>>]
    /\ threads = <<>>
    /\ poll = [disabled |-> TRUE, children |-> <<>>]
    /\ n_clicks = 0

\* an archive is put into the list directory
AddArchive ==
    /\ Cardinality(archive) < MaxFiles
    /\ \E f \in FileNames \ archive : archive' = archive \cup {f}
    /\ lastRun' = [NoRun EXCEPT !.tick = lastRun.tick]
    /\ UNCHANGED <<pklState, pkl, branchFile, MEMB_LISTS>>
    /\ UNCHANGED <<geoVars, limitVars, pageVars, cleanVars, retentionVars, poolVars, fetchVars>>

\* an archive is taken out of the list directory
RemoveArchive ==
    /\ \E f \in archive : archive' = archive \ {f}
    /\ lastRun' = [NoRun EXCEPT !.tick = lastRun.tick]
    /\ UNCHANGED <<pklState, pkl, branchFile, MEMB_LISTS>>
    /\ UNCHANGED <<geoVars, limitVars, pageVars, cleanVars, retentionVars, poolVars, fetchVars>>

\* get_membership_lists, run to its end: it returns, or pickle.load raises
GetMembershipLists ==
    \E listing \in Listings(archive) :
        LET memb_list_zips == scan_all_membership_lists(listing)
            pickled == get_pickled_dict
        IN IF pickled.ok
           THEN LET memb_lists == integrate_new_membership_lists(memb_list_zips, pickled.v)
                IN /\ pklState' = "ok"
                   /\ pkl' = memb_lists
                   /\ MEMB_LISTS' = IF branchFile THEN tagged_with_branches(memb_lists)
                                                  ELSE memb_lists
                   /\ lastRun' = [status |-> "returned", pklWas |-> pklState,
                                  zips |-> memb_list_zips,
                                  cleaned |-> Keys(new_lists(memb_list_zips, pickled.v)),
                                  tick |-> 1 - lastRun.tick]
                   /\ UNCHANGED <<archive, branchFile>>
                   /\ UNCHANGED <<geoVars, limitVars, pageVars, cleanVars, retentionVars, poolVars, fetchVars>>
           ELSE /\ lastRun' = [status |-> "raised", pklWas |-> pklState,
                               zips |-> memb_list_zips, cleaned |-> {},
                               tick |-> 1 - lastRun.tick]
                /\ UNCHANGED <<archive, pklState, pkl, branchFile, MEMB_LISTS>>
                /\ UNCHANGED <<geoVars, limitVars, pageVars, cleanVars, retentionVars, poolVars, fetchVars>>

\* get_membership_lists in a process that ends while pickle.dump is writing:
\* open(..., "wb") has truncated the file and the dump is not complete
InterruptedDump ==
    /\ pklState # "corrupt"
    /\ pklState' = "corrupt"
    /\ pkl' = <<>>
    /\ lastRun' = [status |-> "killed", pklWas |-> pklState, zips |-> <<>>,
                   cleaned |-> {}, tick |-> 1 - lastRun.tick]
    /\ UNCHANGED <<archive, branchFile, MEMB_LISTS>>
    /\ UNCHANGED <<geoVars, limitVars, pageVars, cleanVars, retentionVars, poolVars, fetchVars>>

NextStore == AddArchive \/ RemoveArchive \/ GetMembershipLists \/ InterruptedDump

SpecStore == InitStore /\ [][NextStore]_vars

----------------------------------------------------------------------------
(* Snapshot store: claims *)

\* a step that is a get_membership_lists run which ended by itself
RunStep == lastRun'.tick # lastRun.tick /\ lastRun'.status \in {"returned", "raised"}

Returned == RunStep /\ lastRun'.status = "returned"

\* the keys of the cache a run starting now can load
PickledKeys == IF pklState = "ok" THEN Keys(pkl) ELSE {}

\* the archive names of the model that carry no date
Undated == { ZipName(<<97, 95>> \o Digits(<<2, 0, 2, 3, 0, 2, 2, 9>>)),
             ZipName(<<97, 95, 120, 120>>) }

Tagged(table) == [table EXCEPT !.branch = branchFile]

StrictlyDescending(d) == \A i, j \in DOMAIN d : i < j => StrLess(d[j].k, d[i].k)

\* C1: a run cleans only dates that the scan found and the cache loaded at its
\* start lacks, and a run that returns keeps every cached date with its table in
\* the cache it writes, so no later run cleans that date again.
C1_CleanOnlyUncached ==
    [][/\ RunStep =>
            /\ lastRun'.cleaned \subseteq Keys(lastRun'.zips)
            /\ lastRun'.cleaned \cap PickledKeys = {}
       /\ Returned =>
            /\ lastRun'.cleaned = Keys(lastRun'.zips) \ PickledKeys
            /\ \A k \in PickledKeys : k \in Keys(pkl') /\ Get(pkl', k) = Get(pkl, k)
      ]_vars

\* C1 witness: a run returned that cleaned a new date and skipped a cached one
C1_Witness ==
    /\ lastRun.status = "returned"
    /\ lastRun.pklWas = "ok"
    /\ lastRun.cleaned # {}
    /\ Keys(lastRun.zips) \ lastRun.cleaned # {}

\* C2 (as claimed): for a date both scanned and cached, the table returned and
\* persisted is the one built from the freshly scanned archive.
C2_ScanPreferred ==
    [][Returned =>
         \A k \in Keys(lastRun'.zips) \cap PickledKeys :
             /\ Get(pkl', k).src = Get(lastRun'.zips, k).src
             /\ Get(MEMB_LISTS', k).src = Get(lastRun'.zips, k).src
      ]_vars

\* C2 (amended): for a date both scanned and cached, the table returned and
\* persisted is the cached one; the freshly scanned table is dropped uncleaned.
C2_CachePreferred ==
    [][Returned =>
         \A k \in Keys(lastRun'.zips) \cap PickledKeys :
             /\ Get(pkl', k) = Get(pkl, k)
             /\ Get(MEMB_LISTS', k) = Tagged(Get(pkl, k))
             /\ k \notin lastRun'.cleaned
      ]_vars

\* C2 witness: a run returned with a date whose cached table comes from another
\* archive than the one just scanned for that date
C2_Witness ==
    /\ lastRun.status = "returned"
    /\ \E k \in Keys(lastRun.zips) \ lastRun.cleaned :
           Get(pkl, k).src # Get(lastRun.zips, k).src

\* C5 (as claimed): a run that finds the cache file missing or corrupt returns,
\* having cleaned every scanned date, the mapping of all scanned dates.
C5_BadCacheTolerated ==
    [][RunStep /\ pklState \in {"missing", "corrupt"} =>
         /\ lastRun'.status = "returned"
         /\ lastRun'.cleaned = Keys(lastRun'.zips)
         /\ Keys(MEMB_LISTS') = Keys(lastRun'.zips)
      ]_vars

\* C6: the scan of a directory adds no entry for an archive whose name carries
\* no date, and still has an entry for the date of every other archive.
C6_UndatedSkipped ==
    [][RunStep =>
         /\ \A f \in archive \cap Undated :
                \A k \in Keys(lastRun'.zips) : Get(lastRun'.zips, k).src # f
         /\ \A f \in archive \ Undated :
                /\ DateFromFilename(f).ok
                /\ DateFromFilename(f).v \in Keys(lastRun'.zips)
         /\ \A k \in Keys(lastRun'.zips) : Get(lastRun'.zips, k).src \in archive \ Undated
      ]_vars

\* C6 witness: a run scanned a directory holding undated and dated archives
C6_Witness ==
    /\ lastRun.status = "returned"
    /\ archive \cap Undated # {}
    /\ Cardinality(Keys(lastRun.zips)) >= 2

\* C7: of the archives that yield the same date, the scan keeps the table of the
\* one with the least path, the last in the descending order the scan iterates
\* in, in whatever order the directory was listed.
C7_LeastPathWins ==
    [][RunStep =>
         \A k \in Keys(lastRun'.zips) :
             LET same == {f \in archive : DateFromFilename(f).ok /\ DateFromFilename(f).v = k}
                 kept == Get(lastRun'.zips, k).src
             IN kept \in same /\ \A f \in same \ {kept} : StrLess(kept, f)
      ]_vars

\* C7 witness: a run scanned two archives of the same date
C7_Witness ==
    /\ lastRun.status = "returned"
    /\ \E f, g \in archive :
           /\ f # g
           /\ DateFromFilename(f).ok /\ DateFromFilename(g).ok
           /\ DateFromFilename(f).v = DateFromFilename(g).v
           /\ DateFromFilename(f).v \in Keys(lastRun.zips)

\* C8: the mapping a run returns, and the one it persists, has as keys the
\* scanned dates together with the cached dates, in strictly descending order.
C8_UnionDescending ==
    [][Returned =>
         /\ Keys(MEMB_LISTS') = Keys(lastRun'.zips) \cup PickledKeys
         /\ StrictlyDescending(MEMB_LISTS')
         /\ Keys(pkl') = Keys(MEMB_LISTS')
         /\ StrictlyDescending(pkl')
      ]_vars

\* C8 witness: a run returned three dates, one of them only cached, one new
C8_Witness ==
    /\ lastRun.status = "returned"
    /\ Len(MEMB_LISTS) >= 3
    /\ Keys(MEMB_LISTS) \ Keys(lastRun.zips) # {}
    /\ lastRun.cleaned # {}

----------------------------------------------------------------------------
(* Geocode resolver: src/src/utils/geocoding.py *)

\* the values get_geocoding is called with: address strings, and the
\* float NaN a row without an address gives
Addresses == {"1 Main St, Portland, ME 04101", "2 Elm St, Bangor, ME 04401"}

Params == [isStr : {TRUE}, s : Addresses] \cup {[isStr |-> FALSE, s |-> "nan"]}

Sentinel == <<0, 0>>

Feature(center) == [t |-> "object", has_center |-> TRUE, center |-> center]

NoCenterFeature == [t |-> "object", has_center |-> FALSE, center |-> <<>>]

\* what geocoder.forward(address) may do: raise (no connection), or answer with
\* a JSON object that has a "features" array or has none (an error message)
Responses ==
    { [raises |-> TRUE, has_features |-> FALSE, features |-> <<>>],
      [raises |-> FALSE, has_features |-> FALSE, features |-> <<>>],
      [raises |-> FALSE, has_features |-> TRUE, features |-> <<>>],
      [raises |-> FALSE, has_features |-> TRUE, features |-> <<NoCenterFeature>>],
      [raises |-> FALSE, has_features |-> TRUE, features |-> <<Feature(<<-70, 44>>)>>],
      [raises |-> FALSE, has_features |-> TRUE,
       features |-> <<Feature(<<-69, 45>>), Feature(<<-70, 44>>)>>] }

NoResponse == [raises |-> FALSE, has_features |-> FALSE, features |-> <<>>]

\* x in list, for the int x = 0: an element equal to the number 0
ZeroIn(list) == \E i \in DOMAIN list : list[i].t = "number" /\ list[i].v = 0

\* variant: line 52 testing the list for a first element instead of for the number 0
mapbox_geocoder_indexing(response) ==
    IF response.raises THEN [raised |-> TRUE, v |-> <<>>]
    ELSE IF ~response.has_features THEN [raised |-> FALSE, v |-> Sentinel]
    ELSE IF Len(response.features) = 0 THEN [raised |-> FALSE, v |-> Sentinel]
    ELSE IF ~response.features[1].has_center THEN [raised |-> FALSE, v |-> Sentinel]
    ELSE [raised |-> FALSE, v |-> response.features[1].center]

\* mapbox_geocoder, `response` being what geocoder.forward does: [raised, v]
mapbox_geocoder(response) ==
    IF response.raises THEN [raised |-> TRUE, v |-> <<>>]
    ELSE IF ~response.has_features THEN [raised |-> FALSE, v |-> Sentinel]
    ELSE IF ~ZeroIn(response.features) THEN [raised |-> FALSE, v |-> Sentinel]
    ELSE IF response.features[1].t # "object"
         THEN [raised |-> TRUE, v |-> <<>>]              \* "center" not in 0: TypeError
    ELSE IF ~response.features[1].has_center THEN [raised |-> FALSE, v |-> Sentinel]
    ELSE [raised |-> FALSE, v |-> response.features[1].center]

\* line 64: the calls that go on to mapbox_geocoder
ReachesGeocoder(param) == param.isStr /\ hasToken

\* get_geocoding as written (lines 64-66): [raised, v]
get_geocoding(param, response) ==
    IF ~ReachesGeocoder(param) THEN [raised |-> FALSE, v |-> Sentinel]
    ELSE mapbox_geocoder(response)

\* hashlib.sha256(param.encode("utf-8")).hexdigest(): one digest per string
Sha256Hex(str) == <<"sha256", str>>

\* json.dump(cache): an object whose values are arrays
JsonDump(cache) ==
    [i \in DOMAIN cache |-> [k |-> cache[i].k, v |-> [t |-> "array", items |-> cache[i].v]]]

\* json.load(f): a dict whose values are lists
JsonLoad(json) == [i \in DOMAIN json |-> [k |-> json[i].k, v |-> json[i].v.items]]

\* faulty variant: the decorator starting from an empty cache
persist_load_nothing(file) == <<>>

\* the text of a file is a JSON document: every value ends (json.load does not
\* raise ValueError)
IsJson(json) == \A i \in DOMAIN json : json[i].v.t # "eof"

\* lines 22-27: the cache the decorator starts with, {} when the file is
\* missing (OSError) or is no JSON document (ValueError)
persist_load(file) == IF file.exists /\ IsJson(file.json) THEN JsonLoad(file.json) ELSE <<>>

\* faulty variant: the new entry replacing the cache
cache_store_alone(cache, key, val) == <<[k |-> key, v |-> val]>>

\* line 34: cache[param_hash] = value
cache_store(cache, key, val) == DictSet(cache, key, val)

NoCall == [kind |-> "none", param |-> [isStr |-> FALSE, s |-> "nan"], hit |-> FALSE,
           called |-> FALSE, response |-> NoResponse, raised |-> FALSE, v |-> <<>>]

\* the first import of the module: no geocoding.json yet; the store is not used
InitGeo ==
    /\ archive = {}
    /\ pklState = "missing"
    /\ pkl = <<>>
    /\ branchFile = FALSE
    /\ MEMB_LISTS = <<>>
    /\ lastRun = NoRun
    /\ geoFile = [exists |-> FALSE, json |-> <<>>]
    /\ geoCache = persist_load(geoFile)
    /\ hasToken \in BOOLEAN
    /\ apiCalls = [a \in Addresses |-> 0]
    /\ boots = 0
    /\ lastCall = NoCall
    /\ elapsed = 0
    /\ num_calls = 0
    /\ served = 0
    /\ caller = NoCaller
    /\ lastView = NoView
    /\ raw = NoTable
    /\ frame = NoTable
    /\ stage = "unused"
    /\ members = <<>>
    /\ pivoted = NoPivot
    /\ resolver = "none"
    /\ workers = <<>>
    /\ cache_lock = 0
    /\ poolCache = <<>>
    /\ poolFile = [exists |-> FALSE, json |-> <<>>]
    /\ poolCalls = <<>>
    /\ _fetch_state = [running |-> FALSE, status |-> <<>>]
    /\ threads = <<>>
    /\ poll = [disabled |-> TRUE, children |-> <<>>]
    /\ n_clicks = 0

\* new_func(param), the decorated get_geocoding (lines 29-37)
GetGeocoding ==
    \E param \in Params, response \in Responses :
        IF ~param.isStr
        THEN LET r == get_geocoding(param, response)
             IN /\ lastCall' = [kind |-> "call", param |-> param, hit |-> FALSE,
                                called |-> FALSE, response |-> NoResponse,
                                raised |-> r.raised, v |-> r.v]
                /\ UNCHANGED <<geoFile, geoCache, hasToken, apiCalls, boots>>
                /\ UNCHANGED <<storeVars, limitVars, pageVars, cleanVars, retentionVars, poolVars, fetchVars>>
        ELSE LET param_hash == Sha256Hex(param.s) IN
             IF param_hash \in Keys(geoCache)
             THEN /\ lastCall' = [kind |-> "call", param |-> param, hit |-> TRUE,
                                  called |-> FALSE, response |-> NoResponse,
                                  raised |-> FALSE, v |-> Get(geoCache, param_hash)]
                  /\ UNCHANGED <<geoFile, geoCache, hasToken, apiCalls, boots>>
                  /\ UNCHANGED <<storeVars, limitVars, pageVars, cleanVars, retentionVars, poolVars, fetchVars>>
             ELSE LET called == ReachesGeocoder(param)
                      r == get_geocoding(param, response)
                      cache == cache_store(geoCache, param_hash, r.v)
                  IN /\ called => apiCalls[param.s] < MaxApiCalls
                     /\ apiCalls' = IF called
                                     THEN [apiCalls EXCEPT ![param.s] = @ + 1]
                                     ELSE apiCalls
                     /\ lastCall' = [kind |-> "call", param |-> param, hit |-> FALSE,
                                     called |-> called,
                                     response |-> IF called THEN response ELSE NoResponse,
                                     raised |-> r.raised, v |-> r.v]
                     /\ IF r.raised
                        THEN UNCHANGED <<geoFile, geoCache>>
                        ELSE /\ geoCache' = cache
                             /\ geoFile' = [exists |-> TRUE, json |-> JsonDump(cache)]
                     /\ UNCHANGED <<hasToken, boots>>
                     /\ UNCHANGED <<storeVars, limitVars, pageVars, cleanVars, retentionVars, poolVars, fetchVars>>

\* the process ends and a new one imports the module: .env is read again and
\* the decorator loads geocoding.json
Restart ==
    /\ boots < MaxBoots
    /\ boots' = boots + 1
    /\ hasToken' \in BOOLEAN
    /\ geoCache' = persist_load(geoFile)
    /\ lastCall' = [NoCall EXCEPT !.kind = "boot"]
    /\ UNCHANGED <<geoFile, apiCalls>>
    /\ UNCHANGED <<storeVars, limitVars, pageVars, cleanVars, retentionVars, poolVars, fetchVars>>

NextGeo == GetGeocoding \/ Restart

SpecGeo == InitGeo /\ [][NextGeo]_vars

----------------------------------------------------------------------------
(* Geocode resolver: claims *)

\* C3 (as claimed): over all calls and restarts, mapbox_geocoder is invoked at
\* most once for each address string.
C3_OneCallPerAddress == \A a \in Addresses : apiCalls[a] <= 1

C9_NeverRaises == lastCall.kind = "call" => ~lastCall.raised

\* C10 (as claimed): for a response whose features list is not empty and whose
\* first feature has a center, mapbox_geocoder returns that center; it returns
\* the sentinel for a response without features, without a first feature or
\* without a center in it.
C10_FirstCenterReturned ==
    lastCall.kind = "call" /\ lastCall.called /\ ~lastCall.response.raises =>
        LET r == lastCall.response
            located == /\ r.has_features
                       /\ Len(r.features) >= 1
                       /\ r.features[1].has_center
        IN /\ ~lastCall.raised
           /\ lastCall.v = IF located THEN r.features[1].center ELSE Sentinel

----------------------------------------------------------------------------
(* The rate limiter of mapbox_geocoder, geocoding.py lines 44-46:          *)
(*   @ratelimit.sleep_and_retry                                            *)
(*   @ratelimit.limits(calls=600, period=60)                               *)
(* limits() counts the calls since last_reset and raises RateLimitException *)
(* past the quota; sleep_and_retry sleeps for the exception's              *)
(* period_remaining and calls again.  get_geocoding is applied row after   *)
(* row (add_coordinates), so there is one caller.                          *)

CALLS == 600     \* limits(calls=600)
PERIOD == 60     \* limits(period=60), in seconds

\* period - (clock() - last_reset)
period_remaining(e) == PERIOD - e

\* faulty variant: the quota compared one call late
over_quota_late(n) == n > CALLS + 1

\* num_calls > clamped_calls
over_quota(n) == n > CALLS

\* one pass through the wrapper of limits(), from the limiter's fields
limits_wrapper ==
    LET remaining == period_remaining(elapsed)
        reset == remaining <= 0
        n == (IF reset THEN 0 ELSE num_calls) + 1
    IN [reset |-> reset, num_calls |-> n, raises |-> over_quota(n),
        period_remaining |-> remaining]

\* the limiter after construction; nothing else is used
InitLimit ==
    /\ archive = {}
    /\ pklState = "missing"
    /\ pkl = <<>>
    /\ branchFile = FALSE
    /\ MEMB_LISTS = <<>>
    /\ lastRun = NoRun
    /\ geoFile = [exists |-> FALSE, json |-> <<>>]
    /\ geoCache = <<>>
    /\ hasToken = TRUE
    /\ apiCalls = [a \in {} |-> 0]
    /\ boots = 0
    /\ lastCall = <<>>
    /\ elapsed = 0
    /\ num_calls = 0
    /\ served = 0
    /\ caller = NoCaller
    /\ lastView = NoView
    /\ raw = NoTable
    /\ frame = NoTable
    /\ stage = "unused"
    /\ members = <<>>
    /\ pivoted = NoPivot
    /\ resolver = "none"
    /\ workers = <<>>
    /\ cache_lock = 0
    /\ poolCache = <<>>
    /\ poolFile = [exists |-> FALSE, json |-> <<>>]
    /\ poolCalls = <<>>
    /\ _fetch_state = [running |-> FALSE, status |-> <<>>]
    /\ threads = <<>>
    /\ poll = [disabled |-> TRUE, children |-> <<>>]
    /\ n_clicks = 0

\* the wrapper runs: the body of mapbox_geocoder executes, or
\* RateLimitException(period_remaining) reaches sleep_and_retry
Enter(waited) ==
    LET w == limits_wrapper
        before == IF w.reset THEN 0 ELSE served
    IN /\ elapsed' = IF w.reset THEN 0 ELSE elapsed
       /\ num_calls' = w.num_calls
       /\ served' = IF w.raises THEN before ELSE before + 1
       /\ caller' = IF w.raises
                    THEN [pc |-> "sleeping", waited |-> TRUE, wait |-> w.period_remaining]
                    ELSE [pc |-> "idle", waited |-> waited, wait |-> 0]
       /\ UNCHANGED <<storeVars, geoVars, pageVars, cleanVars, retentionVars, poolVars, fetchVars>>

\* mapbox_geocoder(address) is called
CallGeocoder ==
    /\ caller.pc = "idle"
    /\ Enter(FALSE)

\* a second passes between two calls
Tick ==
    /\ caller.pc = "idle"
    /\ elapsed < PERIOD
    /\ elapsed' = elapsed + 1
    /\ caller' = [caller EXCEPT !.waited = FALSE]
    /\ UNCHANGED <<num_calls, served>>
    /\ UNCHANGED <<storeVars, geoVars, pageVars, cleanVars, retentionVars, poolVars, fetchVars>>

\* time.sleep(exception.period_remaining) returns
Wake ==
    /\ caller.pc = "sleeping"
    /\ elapsed' = IF elapsed + caller.wait > PERIOD THEN PERIOD ELSE elapsed + caller.wait
    /\ caller' = [caller EXCEPT !.pc = "woken"]
    /\ UNCHANGED <<num_calls, served>>
    /\ UNCHANGED <<storeVars, geoVars, pageVars, cleanVars, retentionVars, poolVars, fetchVars>>

\* the while loop of sleep_and_retry calls the limited function again
Retry ==
    /\ caller.pc = "woken"
    /\ Enter(TRUE)

NextLimit == CallGeocoder \/ Tick \/ Wake \/ Retry

SpecLimit == InitLimit /\ [][NextLimit]_vars

\* time.sleep returns and the loop goes on
FairLimit == SpecLimit /\ WF_vars(Wake) /\ WF_vars(Retry)

\* C11: in every window of the limiter at most 600 calls execute the body of
\* mapbox_geocoder, and a call refused for quota sleeps, then executes as the
\* first call of the next window.
C11_QuotaAndBlocking ==
    /\ [](served <= CALLS)
    /\ [](caller.pc = "sleeping" => served = CALLS /\ caller.wait = PERIOD - elapsed)
    /\ (caller.pc = "sleeping") ~> (caller.pc = "idle" /\ caller.waited /\ served = 1)

\* C11 witness: a call that was refused has executed after the reset
C11_Witness ==
    /\ caller.pc = "idle"
    /\ caller.waited
    /\ served = 1
    /\ num_calls = 1

----------------------------------------------------------------------------
(* The dashboard callbacks that read MEMB_LISTS: create_list               *)
(* (pages/list.py 56-101), create_retention (pages/retention.py 173-430),  *)
(* create_map (pages/map.py 64-130), create_timeline (pages/timeline.py    *)
(* 78-98).  The tables they get from MEMB_LISTS are the stored objects.    *)

MaxSnapshots == 2    \* archives in the list directory of the dashboard

\* df["list_date"] = date: the table gets the column list_date
WithListDate(table, date) ==
    [src |-> table.src, cleaned |-> table.cleaned, branch |-> table.branch,
     list_date |-> date]

\* MEMB_LISTS.get(date, pd.DataFrame()).empty: no table of that date (a
\* stored table has rows)
Empty(date) == date \notin Keys(MEMB_LISTS)

\* the values a date dropdown can send: a stored date or nothing
DateChoices == Keys(MEMB_LISTS) \cup {<<>>}

\* create_list, lines 58-66: what MEMB_LISTS holds when it returns
create_list(date_selected, date_compare_selected) ==
    IF Empty(date_compare_selected)
    THEN MEMB_LISTS
    ELSE [i \in DOMAIN MEMB_LISTS |->
            IF MEMB_LISTS[i].k \in {date_selected, date_compare_selected}
            THEN [k |-> MEMB_LISTS[i].k,
                  v |-> WithListDate(MEMB_LISTS[i].v, MEMB_LISTS[i].k)]
            ELSE MEMB_LISTS[i]]

\* create_retention, lines 189-194: df.loc[mask] is a new table, and the
\* assignment of membership_length_months is made on it
create_retention(date_selected) == MEMB_LISTS

\* create_map, lines 66-67: df_map.loc[mask] is a new table
create_map(date_selected) == MEMB_LISTS

\* create_timeline, line 80: a dict of new tables, one per stored table
create_timeline == MEMB_LISTS

\* the dashboard starts over a list directory without a pickle
InitPages ==
    /\ archive \in {a \in SUBSET FileNames : Cardinality(a) <= MaxSnapshots}
    /\ pklState = "missing"
    /\ pkl = <<>>
    /\ branchFile \in BOOLEAN
    /\ MEMB_LISTS = <<>>
    /\ lastRun = NoRun
    /\ geoFile = [exists |-> FALSE, json |-> <<>>]
    /\ geoCache = <<>>
    /\ hasToken = FALSE
    /\ apiCalls = [a \in {} |-> 0]
    /\ boots = 0
    /\ lastCall = <<>>
    /\ elapsed = 0
    /\ num_calls = 0
    /\ served = 0
    /\ caller = NoCaller
    /\ lastView = NoView
    /\ raw = NoTable
    /\ frame = NoTable
    /\ stage = "unused"
    /\ members = <<>>
    /\ pivoted = NoPivot
    /\ resolver = "none"
    /\ workers = <<>>
    /\ cache_lock = 0
    /\ poolCache = <<>>
    /\ poolFile = [exists |-> FALSE, json |-> <<>>]
    /\ poolCalls = <<>>
    /\ _fetch_state = [running |-> FALSE, status |-> <<>>]
    /\ threads = <<>>
    /\ poll = [disabled |-> TRUE, children |-> <<>>]
    /\ n_clicks = 0

View(op, date_selected, date_compare_selected) ==
    [op |-> op, date_selected |-> date_selected,
     date_compare_selected |-> date_compare_selected]

CreateList ==
    \E date_selected \in DateChoices, date_compare_selected \in DateChoices :
        /\ MEMB_LISTS' = create_list(date_selected, date_compare_selected)
        /\ lastView' = View("create_list", date_selected, date_compare_selected)
        /\ UNCHANGED <<archive, pklState, pkl, branchFile, lastRun>>
        /\ UNCHANGED <<geoVars, limitVars, cleanVars, retentionVars, poolVars, fetchVars>>

CreateRetention ==
    \E date_selected \in Keys(MEMB_LISTS) :
        /\ MEMB_LISTS' = create_retention(date_selected)
        /\ lastView' = View("create_retention", date_selected, <<>>)
        /\ UNCHANGED <<archive, pklState, pkl, branchFile, lastRun>>
        /\ UNCHANGED <<geoVars, limitVars, cleanVars, retentionVars, poolVars, fetchVars>>

CreateMap ==
    \E date_selected \in Keys(MEMB_LISTS) :
        /\ MEMB_LISTS' = create_map(date_selected)
        /\ lastView' = View("create_map", date_selected, <<>>)
        /\ UNCHANGED <<archive, pklState, pkl, branchFile, lastRun>>
        /\ UNCHANGED <<geoVars, limitVars, cleanVars, retentionVars, poolVars, fetchVars>>

CreateTimeline ==
    /\ MEMB_LISTS' = create_timeline
    /\ lastView' = View("create_timeline", <<>>, <<>>)
    /\ UNCHANGED <<archive, pklState, pkl, branchFile, lastRun>>
    /\ UNCHANGED <<geoVars, limitVars, cleanVars, retentionVars, poolVars, fetchVars>>

NextPages ==
    GetMembershipLists \/ CreateList \/ CreateRetention \/ CreateMap \/ CreateTimeline

SpecPages == InitPages /\ [][NextPages]_vars

\* C12 (as claimed): once get_membership_lists has returned, the tables held
\* in MEMB_LISTS change only in a step of a new get_membership_lists run; no
\* dashboard callback changes the rows, values or columns of a stored table.
C12_SnapshotsFrozen == [][MEMB_LISTS' # MEMB_LISTS => Returned]_vars

----------------------------------------------------------------------------
(* The normalizer: data_cleaning and the functions it applies              *)
(* (src/src/utils/scan_lists.py lines 24-137, 189-204).                    *)
(* A table is [index, idx, cols]: the name of the index column (<<>> for   *)
(* the RangeIndex of read_csv), the index values, and a function from the  *)
(* column names to the column's cells, one per row.  A cell is [t, s]: a   *)
(* str with its text, an int, a NaN, a Timestamp (year, month, day), a NaT. *)

\* the column names the model uses, as str
Col ==
    [ organization |-> <<111, 114, 103, 97, 110, 105, 122, 97, 116, 105, 111, 110>>,   \* "organization"
      dsa_id |-> <<100, 115, 97, 95, 105, 100>>,   \* "dsa_id"
      family_first_name |-> <<102, 97, 109, 105, 108, 121, 95, 102, 105, 114, 115, 116, 95, 110, 97, 109, 101>>,   \* "family_first_name"
      family_last_name |-> <<102, 97, 109, 105, 108, 121, 95, 108, 97, 115, 116, 95, 110, 97, 109, 101>>,   \* "family_last_name"
      family_members |-> <<102, 97, 109, 105, 108, 121, 95, 109, 101, 109, 98, 101, 114, 115>>,   \* "family_members"
      accommodations |-> <<97, 99, 99, 111, 109, 109, 111, 100, 97, 116, 105, 111, 110, 115>>,   \* "accommodations"
      accomodations |-> <<97, 99, 99, 111, 109, 111, 100, 97, 116, 105, 111, 110, 115>>,   \* "accomodations"
      actionkit_id |-> <<97, 99, 116, 105, 111, 110, 107, 105, 116, 95, 105, 100>>,   \* "actionkit_id"
      akid |-> <<97, 107, 105, 100>>,   \* "akid"
      ak_id |-> <<97, 107, 95, 105, 100>>,   \* "ak_id"
      address1 |-> <<97, 100, 100, 114, 101, 115, 115, 49>>,   \* "address1"
      billing_address1 |-> <<98, 105, 108, 108, 105, 110, 103, 95, 97, 100, 100, 114, 101, 115, 115, 49>>,   \* "billing_address1"
      billing_address_line_1 |-> <<98, 105, 108, 108, 105, 110, 103, 95, 97, 100, 100, 114, 101, 115, 115, 95, 108, 105, 110, 101, 95, 49>>,   \* "billing_address_line_1"
      mailing_address1 |-> <<109, 97, 105, 108, 105, 110, 103, 95, 97, 100, 100, 114, 101, 115, 115, 49>>,   \* "mailing_address1"
      address_line_1 |-> <<97, 100, 100, 114, 101, 115, 115, 95, 108, 105, 110, 101, 95, 49>>,   \* "address_line_1"
      address2 |-> <<97, 100, 100, 114, 101, 115, 115, 50>>,   \* "address2"
      billing_address2 |-> <<98, 105, 108, 108, 105, 110, 103, 95, 97, 100, 100, 114, 101, 115, 115, 50>>,   \* "billing_address2"
      billing_address_line_2 |-> <<98, 105, 108, 108, 105, 110, 103, 95, 97, 100, 100, 114, 101, 115, 115, 95, 108, 105, 110, 101, 95, 50>>,   \* "billing_address_line_2"
      mailing_address2 |-> <<109, 97, 105, 108, 105, 110, 103, 95, 97, 100, 100, 114, 101, 115, 115, 50>>,   \* "mailing_address2"
      address_line_2 |-> <<97, 100, 100, 114, 101, 115, 115, 95, 108, 105, 110, 101, 95, 50>>,   \* "address_line_2"
      city |-> <<99, 105, 116, 121>>,   \* "city"
      billing_city |-> <<98, 105, 108, 108, 105, 110, 103, 95, 99, 105, 116, 121>>,   \* "billing_city"
      mailing_city |-> <<109, 97, 105, 108, 105, 110, 103, 95, 99, 105, 116, 121>>,   \* "mailing_city"
      dsa_chapter |-> <<100, 115, 97, 95, 99, 104, 97, 112, 116, 101, 114>>,   \* "dsa_chapter"
      chapter |-> <<99, 104, 97, 112, 116, 101, 114>>,   \* "chapter"
      state |-> <<115, 116, 97, 116, 101>>,   \* "state"
      billing_state |-> <<98, 105, 108, 108, 105, 110, 103, 95, 115, 116, 97, 116, 101>>,   \* "billing_state"
      mailing_state |-> <<109, 97, 105, 108, 105, 110, 103, 95, 115, 116, 97, 116, 101>>,   \* "mailing_state"
      union_local |-> <<117, 110, 105, 111, 110, 95, 108, 111, 99, 97, 108>>,   \* "union_local"
      union_name_local |-> <<117, 110, 105, 111, 110, 95, 110, 97, 109, 101, 95, 108, 111, 99, 97, 108>>,   \* "union_name_local"
      ydsa_chapter |-> <<121, 100, 115, 97, 95, 99, 104, 97, 112, 116, 101, 114>>,   \* "ydsa_chapter"
      ydsa_chapter_spaced |-> <<121, 100, 115, 97, 32, 99, 104, 97, 112, 116, 101, 114>>,   \* "ydsa chapter"
      yearly_dues_status |-> <<121, 101, 97, 114, 108, 121, 95, 100, 117, 101, 115, 95, 115, 116, 97, 116, 117, 115>>,   \* "yearly_dues_status"
      annual_recurring_dues_status |-> <<97, 110, 110, 117, 97, 108, 95, 114, 101, 99, 117, 114, 114, 105, 110, 103, 95, 100, 117, 101, 115, 95, 115, 116, 97, 116, 117, 115>>,   \* "annual_recurring_dues_status"
      zip |-> <<122, 105, 112>>,   \* "zip"
      billing_zip |-> <<98, 105, 108, 108, 105, 110, 103, 95, 122, 105, 112>>,   \* "billing_zip"
      mailing_zip |-> <<109, 97, 105, 108, 105, 110, 103, 95, 122, 105, 112>>,   \* "mailing_zip"
      union_member |-> <<117, 110, 105, 111, 110, 95, 109, 101, 109, 98, 101, 114>>,   \* "union_member"
      join_date |-> <<106, 111, 105, 110, 95, 100, 97, 116, 101>>,   \* "join_date"
      join_year |-> <<106, 111, 105, 110, 95, 121, 101, 97, 114>>,   \* "join_year"
      join_quarter |-> <<106, 111, 105, 110, 95, 113, 117, 97, 114, 116, 101, 114>>,   \* "join_quarter"
      xdate |-> <<120, 100, 97, 116, 101>>,   \* "xdate"
      membership_length_months |-> <<109, 101, 109, 98, 101, 114, 115, 104, 105, 112, 95, 108, 101, 110, 103, 116, 104, 95, 109, 111, 110, 116, 104, 115>>,   \* "membership_length_months"
      membership_length_years |-> <<109, 101, 109, 98, 101, 114, 115, 104, 105, 112, 95, 108, 101, 110, 103, 116, 104, 95, 121, 101, 97, 114, 115>>,   \* "membership_length_years"
      membership_status |-> <<109, 101, 109, 98, 101, 114, 115, 104, 105, 112, 95, 115, 116, 97, 116, 117, 115>>,   \* "membership_status"
      memb_status_letter |-> <<109, 101, 109, 98, 95, 115, 116, 97, 116, 117, 115, 95, 108, 101, 116, 116, 101, 114>>,   \* "memb_status_letter"
      membership_type |-> <<109, 101, 109, 98, 101, 114, 115, 104, 105, 112, 95, 116, 121, 112, 101>>,   \* "membership_type"
      lat |-> <<108, 97, 116>>,   \* "lat"
      lon |-> <<108, 111, 110>>,   \* "lon"
      branch |-> <<98, 114, 97, 110, 99, 104>>,   \* "branch"
      AK_ID_upper |-> <<65, 75, 95, 73, 68>>,   \* "AK_ID"
      first_name |-> <<102, 105, 114, 115, 116, 95, 110, 97, 109, 101>> ]   \* "first_name"

\* the cell texts the model uses, as str
Txt ==
    [ expired |-> <<101, 120, 112, 105, 114, 101, 100>>,   \* "expired"
      lapsed |-> <<108, 97, 112, 115, 101, 100>>,   \* "lapsed"
      Expired |-> <<69, 120, 112, 105, 114, 101, 100>>,   \* "Expired"
      EXPIRED |-> <<69, 88, 80, 73, 82, 69, 68>>,   \* "EXPIRED"
      member |-> <<109, 101, 109, 98, 101, 114>>,   \* "member"
      migs |-> <<109, 101, 109, 98, 101, 114, 32, 105, 110, 32, 103, 111, 111, 100, 32, 115, 116, 97, 110, 100, 105, 110, 103>>,   \* "member in good standing"
      MIGS_title |-> <<77, 101, 109, 98, 101, 114, 32, 73, 110, 32, 71, 111, 111, 100, 32, 83, 116, 97, 110, 100, 105, 110, 103>>,   \* "Member In Good Standing"
      M |-> <<77>>,   \* "M"
      L |-> <<76>>,   \* "L"
      annual |-> <<97, 110, 110, 117, 97, 108>>,   \* "annual"
      yearly |-> <<121, 101, 97, 114, 108, 121>>,   \* "yearly"
      monthly |-> <<109, 111, 110, 116, 104, 108, 121>>,   \* "monthly"
      lifetime |-> <<108, 105, 102, 101, 116, 105, 109, 101>>,   \* "lifetime"
      Lifetime |-> <<76, 105, 102, 101, 116, 105, 109, 101>>,   \* "Lifetime"
      nan |-> <<110, 97, 110>>,   \* "nan"
      No |-> <<78, 111>>,   \* "No"
      union_current |-> <<89, 101, 115, 44, 32, 99, 117, 114, 114, 101, 110, 116, 32, 117, 110, 105, 111, 110, 32, 109, 101, 109, 98, 101, 114>>,   \* "Yes, current union member"
      union_retired |-> <<89, 101, 115, 44, 32, 114, 101, 116, 105, 114, 101, 100, 32, 117, 110, 105, 111, 110, 32, 109, 101, 109, 98, 101, 114>>,   \* "Yes, retired union member"
      comma_space |-> <<44, 32>>,   \* ", "
      space |-> <<32>>,   \* " "
      portland |-> <<80, 79, 82, 84, 76, 65, 78, 68>>,   \* "PORTLAND"
      bath |-> <<98, 97, 116, 104>>,   \* "bath"
      ME |-> <<77, 69>>,   \* "ME"
      main_st |-> <<49, 32, 77, 97, 105, 110, 32, 83, 116>>,   \* "1 Main St"
      elm_st |-> <<50, 32, 69, 108, 109, 32, 83, 116>>,   \* "2 Elm St"
      oak_st |-> <<51, 32, 79, 97, 107, 32, 83, 116>>,   \* "3 Oak St"
      Portland |-> <<80, 111, 114, 116, 108, 97, 110, 100>>,   \* "Portland"
      Brunswick |-> <<66, 114, 117, 110, 115, 119, 105, 99, 107>>,   \* "Brunswick"
      sam |-> <<83, 97, 109>>,   \* "Sam"
      lee |-> <<76, 101, 101>> ]   \* "Lee"

Str(text) == [t |-> "str", s |-> text]
IntCell(n) == [t |-> "int", s |-> <<n>>]
NaN == [t |-> "nan", s |-> <<>>]
Timestamp(y, m, d) == [t |-> "date", s |-> <<y, m, d>>]
NaT == [t |-> "nat", s |-> <<>>]

\* str.lower()
Lower(text) == [i \in DOMAIN text |-> IF text[i] \in 65..90 THEN text[i] + 32 ELSE text[i]]

IsLetter(ch) == ch \in 65..90 \/ ch \in 97..122

\* str.title(): a letter after a letter is lowercased, any other letter uppercased
Title(text) ==
    [i \in DOMAIN text |->
        IF i > 1 /\ IsLetter(text[i - 1])
        THEN (IF text[i] \in 65..90 THEN text[i] + 32 ELSE text[i])
        ELSE (IF text[i] \in 97..122 THEN text[i] - 32 ELSE text[i])]

\* str(n) of an int that is not negative
RECURSIVE Decimal(_)
Decimal(n) == IF n < 10 THEN <<48 + n>> ELSE Decimal(n \div 10) \o <<48 + (n % 10)>>

\* str(x) of a cell
PyStr(cell) ==
    IF cell.t = "str" THEN cell.s
    ELSE IF cell.t = "int" THEN Decimal(cell.s[1])
    ELSE Txt.nan

\* str.zfill(width): zeros on the left up to width, after a leading sign
RECURSIVE Zfill(_, _)
Zfill(text, width) ==
    IF Len(text) >= width THEN text
    ELSE IF text # <<>> /\ text[1] \in {43, 45}
         THEN <<text[1]>> \o Zfill(Tail(text), width - 1)
         ELSE Zfill(<<48>> \o text, width)

\* text.split(sep)[0] for a separator of one character
RECURSIVE FirstSegment(_, _)
FirstSegment(text, sep) ==
    IF text = <<>> \/ Head(text) = sep THEN <<>>
    ELSE <<Head(text)>> \o FirstSegment(Tail(text), sep)

\* pd.to_datetime(text, format="mixed") of a text "YYYY-MM-DD"; ok is FALSE
\* for the ValueError raised on any other text the model uses
ParseIso(text) ==
    IF Len(text) = 10 /\ text[5] = 45 /\ text[8] = 45
    THEN ParseYmd(SubSeq(text, 1, 4) \o SubSeq(text, 6, 7) \o SubSeq(text, 9, 10))
    ELSE [ok |-> FALSE]

\* ListColumnRules.FIELD_DROP, lines 27-32
FIELD_DROP == <<Col.organization, Col.dsa_id, Col.family_first_name, Col.family_last_name>>

\* ListColumnRules.FIELD_UPGRADE_PATHS, lines 33-55, in the declared order
FIELD_UPGRADE_PATHS ==
    << [new |-> Col.accommodations, old |-> <<Col.accomodations>>],
       [new |-> Col.actionkit_id, old |-> <<Col.akid, Col.ak_id>>],
       [new |-> Col.address1, old |-> <<Col.billing_address1, Col.billing_address_line_1,
                                      Col.mailing_address1, Col.address_line_1>>],
       [new |-> Col.address2, old |-> <<Col.billing_address2, Col.billing_address_line_2,
                                      Col.mailing_address2, Col.address_line_2>>],
       [new |-> Col.city, old |-> <<Col.billing_city, Col.mailing_city>>],
       [new |-> Col.dsa_chapter, old |-> <<Col.chapter>>],
       [new |-> Col.state, old |-> <<Col.billing_state, Col.mailing_state>>],
       [new |-> Col.union_local, old |-> <<Col.union_name_local>>],
       [new |-> Col.ydsa_chapter, old |-> <<Col.ydsa_chapter_spaced>>],
       [new |-> Col.yearly_dues_status, old |-> <<Col.annual_recurring_dues_status>>],
       [new |-> Col.zip, old |-> <<Col.billing_zip, Col.mailing_zip>>] >>

\* {old: new for new, old_names in FIELD_UPGRADE_PATHS.items() for old in old_names}
RECURSIVE UpgradePairs(_)
UpgradePairs(paths) ==
    IF paths = <<>> THEN <<>>
    ELSE [i \in DOMAIN Head(paths).old |-> [old |-> Head(paths).old[i], new |-> Head(paths).new]]
         \o UpgradePairs(Tail(paths))

\* line 56
FIELD_UPGRADE_PAIRS == UpgradePairs(FIELD_UPGRADE_PATHS)

\* what a step of data_cleaning yields: the table, or the exception raised
Ok(df) == [ok |-> TRUE, err |-> "", v |-> df]
Raise(err) == [ok |-> FALSE, err |-> err, v |-> <<>>]

Columns(df) == DOMAIN df.cols

\* df[name] = col
SetColumn(df, name, col) ==
    [df EXCEPT !.cols = [c \in Columns(df) \cup {name} |->
                            IF c = name THEN col ELSE df.cols[c]]]

\* df.drop(columns=name, inplace=True, errors="ignore")
DropColumn(df, name) ==
    [df EXCEPT !.cols = [c \in Columns(df) \ {name} |-> df.cols[c]]]

\* line 94: df.columns = df.columns.str.lower()
lower_columns(df) ==
    Ok([df EXCEPT !.cols = [c \in {Lower(k) : k \in Columns(df)} |->
                               df.cols[CHOOSE k \in Columns(df) : Lower(k) = c]]])

\* Series.str.cat(other, sep=" "), cell by cell
StrCat(a, b) == IF a.t = "str" /\ b.t = "str" THEN Str(a.s \o Txt.space \o b.s) ELSE NaN

\* lines 95-96
family_members(df) ==
    IF Col.family_first_name \notin Columns(df) THEN Ok(df)
    ELSE IF Col.family_last_name \notin Columns(df) THEN Raise("AttributeError")
    ELSE Ok(SetColumn(df, Col.family_members,
                      [i \in DOMAIN df.idx |-> StrCat(df.cols[Col.family_first_name][i],
                                                     df.cols[Col.family_last_name][i])]))

\* faulty variant: the canonical column overwritten by every alias present
upgrade_overwriting(df, pair) ==
    DropColumn(IF pair.old \in Columns(df)
               THEN SetColumn(df, pair.new, df.cols[pair.old])
               ELSE df,
               pair.old)

\* lines 99-101, one turn of the loop
upgrade(df, pair) ==
    DropColumn(IF pair.new \notin Columns(df) /\ pair.old \in Columns(df)
               THEN SetColumn(df, pair.new, df.cols[pair.old])
               ELSE df,
               pair.old)

\* lines 98-101
\* the turns first..last of the loop, in order; the table left by the first
\* half of the turns is a value before the second half starts
RECURSIVE upgrade_loop(_, _, _)
upgrade_loop(df, first, last) ==
    IF first > last THEN df
    ELSE IF first = last THEN upgrade(df, FIELD_UPGRADE_PAIRS[first])
    ELSE CHOOSE out \in {upgrade_loop(half, (first + last) \div 2 + 1, last) :
                             half \in {upgrade_loop(df, first, (first + last) \div 2)}} : TRUE

\* lines 102-103
RECURSIVE drop_loop(_, _)
drop_loop(df, names) ==
    IF names = <<>> THEN df ELSE drop_loop(DropColumn(df, Head(names)), Tail(names))

\* lines 98-103
upgrade_and_drop(df) == Ok(drop_loop(upgrade_loop(df, 1, Len(FIELD_UPGRADE_PAIRS)), FIELD_DROP))

\* faulty variant: a table without the column left as it is
set_index_lenient(df) ==
    IF Col.actionkit_id \notin Columns(df) THEN Ok(df)
    ELSE Ok([index |-> Col.actionkit_id,
             idx |-> df.cols[Col.actionkit_id],
             cols |-> [c \in Columns(df) \ {Col.actionkit_id} |-> df.cols[c]]])

\* line 105: df.set_index("actionkit_id", inplace=True); KeyError when the
\* table has no such column
set_index(df) ==
    IF Col.actionkit_id \notin Columns(df) THEN Raise("KeyError")
    ELSE Ok([index |-> Col.actionkit_id,
             idx |-> df.cols[Col.actionkit_id],
             cols |-> [c \in Columns(df) \ {Col.actionkit_id} |-> df.cols[c]]])

\* lines 87-89
format_zip_code(zip_code) == Str(Zfill(PyStr(zip_code), 5))

\* line 107
clean_zip(df) ==
    IF Col.zip \notin Columns(df) THEN Raise("AttributeError")
    ELSE Ok(SetColumn(df, Col.zip,
                      [i \in DOMAIN df.idx |-> format_zip_code(df.cols[Col.zip][i])]))

\* line 108
clean_city(df) ==
    IF Col.city \notin Columns(df) THEN Raise("AttributeError")
    ELSE Ok(SetColumn(df, Col.city,
                      [i \in DOMAIN df.idx |->
                          LET cell == df.cols[Col.city][i]
                          IN IF cell.t = "str" THEN Str(Title(cell.s)) ELSE NaN]))

\* lines 111-113: the replacement of one union_member cell
UnionMember(cell) ==
    IF cell = IntCell(0) THEN Str(Txt.No)
    ELSE IF cell = IntCell(1) THEN Str(Txt.union_current)
    ELSE IF cell = IntCell(2) THEN Str(Txt.union_retired)
    ELSE cell

\* lines 110-114
clean_union_member(df) ==
    IF Col.union_member \notin Columns(df) THEN Ok(df)
    ELSE Ok(SetColumn(df, Col.union_member,
                      [i \in DOMAIN df.idx |-> UnionMember(df.cols[Col.union_member][i])]))

\* pd.to_datetime(cell, format="mixed"): a missing value gives NaT
to_datetime(cell) ==
    IF cell.t \in {"date", "nat"} THEN [ok |-> TRUE, v |-> cell]
    ELSE IF cell.t = "nan" THEN [ok |-> TRUE, v |-> NaT]
    ELSE IF cell.t = "str" /\ ParseIso(cell.s).ok
         THEN [ok |-> TRUE, v |-> [t |-> "date", s |-> ParseIso(cell.s).v]]
         ELSE [ok |-> FALSE]

\* lines 116 and 119
clean_date(df, name) ==
    IF name \notin Columns(df) THEN Raise("KeyError")
    ELSE IF \E i \in DOMAIN df.idx : ~to_datetime(df.cols[name][i]).ok
         THEN Raise("ValueError")
         ELSE Ok(SetColumn(df, name,
                           [i \in DOMAIN df.idx |-> to_datetime(df.cols[name][i]).v]))

clean_join_date(df) == clean_date(df, Col.join_date)

clean_xdate(df) == clean_date(df, Col.xdate)

\* pd.PeriodIndex(col, freq="Y").to_timestamp(), one cell
YearStart(cell) == IF cell.t = "date" THEN Timestamp(cell.s[1], 1, 1) ELSE NaT

\* pd.PeriodIndex(col, freq="Q").to_timestamp(), one cell
QuarterStart(cell) ==
    IF cell.t = "date" THEN Timestamp(cell.s[1], 3 * ((cell.s[2] - 1) \div 3) + 1, 1) ELSE NaT

\* lines 117-118
join_periods(df) ==
    Ok(SetColumn(SetColumn(df, Col.join_year,
                           [i \in DOMAIN df.idx |-> YearStart(df.cols[Col.join_date][i])]),
                 Col.join_quarter,
                 [i \in DOMAIN df.idx |-> QuarterStart(df.cols[Col.join_date][i])]))

\* faulty variant: the difference of the years alone
membership_length_months_years_only(join_date, xdate) ==
    IF join_date.t = "date" /\ xdate.t = "date"
    THEN IntCell(12 * (xdate.s[1] - join_date.s[1]))
    ELSE NaN

\* lines 59-61, one row; a NaT on either side gives NaN
membership_length_months(join_date, xdate) ==
    IF join_date.t = "date" /\ xdate.t = "date"
    THEN IntCell(12 * (xdate.s[1] - join_date.s[1]) + (xdate.s[2] - join_date.s[2]))
    ELSE NaN

\* months // 12, one cell (floor division)
FloorDiv12(cell) == IF cell.t = "int" THEN IntCell(cell.s[1] \div 12) ELSE NaN

\* lines 121-122
clean_lengths(df) ==
    LET months == [i \in DOMAIN df.idx |->
                      membership_length_months(df.cols[Col.join_date][i], df.cols[Col.xdate][i])]
    IN Ok(SetColumn(SetColumn(df, Col.membership_length_months, months),
                    Col.membership_length_years,
                    [i \in DOMAIN df.idx |-> FloorDiv12(months[i])]))

\* Series.replace(old, new).str.lower(), one cell
ReplaceThenLower(cell, old, new) ==
    IF cell.t # "str" THEN NaN
    ELSE Str(Lower(IF cell.s = old THEN new ELSE cell.s))

\* line 125, one cell
StatusLetter(cell) ==
    IF cell \in {Str(Txt.migs), Str(Txt.member)} THEN Str(Txt.M)
    ELSE IF cell = Str(Txt.lapsed) THEN Str(Txt.L)
    ELSE cell

\* lines 124-125
clean_status(df) ==
    IF Col.membership_status \notin Columns(df) THEN Raise("AttributeError")
    ELSE LET status == [i \in DOMAIN df.idx |->
                           ReplaceThenLower(df.cols[Col.membership_status][i],
                                            Txt.expired, Txt.lapsed)]
         IN Ok(SetColumn(SetColumn(df, Col.membership_status, status),
                         Col.memb_status_letter,
                         [i \in DOMAIN df.idx |-> StatusLetter(status[i])]))

\* the xdate of a lifetime membership: "2099-11-01", line 128
LifetimeXdate == Timestamp(2099, 11, 1)

\* faulty variant: the source's type kept whatever the xdate
lifetime_where_never(cell, xdate) == cell

\* line 128: Series.where(xdate != "2099-11-01", "lifetime"), one cell
lifetime_where(cell, xdate) == IF xdate # LifetimeXdate THEN cell ELSE Str(Txt.lifetime)

\* lines 127-128
clean_type(df) ==
    IF Col.membership_type \notin Columns(df) THEN Raise("AttributeError")
    ELSE Ok(SetColumn(df, Col.membership_type,
                      [i \in DOMAIN df.idx |->
                          lifetime_where(ReplaceThenLower(df.cols[Col.membership_type][i],
                                                          Txt.annual, Txt.yearly),
                                         df.cols[Col.xdate][i])]))

\* str + str, cell by cell: NaN when a side is missing
Plus(a, b) == IF a.t = "str" /\ b.t = "str" THEN Str(a.s \o b.s) ELSE NaN

\* scan_lists.get_geocoding (lines 79-84) without "MAPBOX" in config: [0, 0]
get_geocoding_unconfigured(address) == <<0, 0>>

\* lines 130-135
geocode(df) ==
    IF Col.lat \in Columns(df) THEN Ok(df)
    ELSE IF ~({Col.address1, Col.city, Col.state, Col.zip} \subseteq Columns(df)) THEN Raise("KeyError")
    ELSE LET address(i) == Plus(Plus(Plus(Plus(Plus(Plus(df.cols[Col.address1][i],
                                   Str(Txt.comma_space)), df.cols[Col.city][i]),
                                   Str(Txt.comma_space)), df.cols[Col.state][i]),
                                   Str(Txt.space)), df.cols[Col.zip][i])
         IN Ok(SetColumn(SetColumn(df, Col.lon,
                   [i \in DOMAIN df.idx |-> IntCell(get_geocoding_unconfigured(address(i))[1])]),
                   Col.lat,
                   [i \in DOMAIN df.idx |-> IntCell(get_geocoding_unconfigured(address(i))[2])]))

\* one statement group of data_cleaning after the first, by name
Step(name, df) ==
    CASE name = "family_members" -> family_members(df)
      [] name = "upgrade_and_drop" -> upgrade_and_drop(df)
      [] name = "set_index" -> set_index(df)
      [] name = "clean_zip" -> clean_zip(df)
      [] name = "clean_city" -> clean_city(df)
      [] name = "clean_union_member" -> clean_union_member(df)
      [] name = "clean_join_date" -> clean_join_date(df)
      [] name = "join_periods" -> join_periods(df)
      [] name = "clean_xdate" -> clean_xdate(df)
      [] name = "clean_lengths" -> clean_lengths(df)
      [] name = "clean_status" -> clean_status(df)
      [] name = "clean_type" -> clean_type(df)
      [] name = "geocode" -> geocode(df)

\* a statement group runs when nothing before it has raised
AndThen(r, name) == IF r.ok THEN Step(name, r.v) ELSE r

\* data_cleaning, lines 92-137, on a table with its cells: [ok, err, v]
DataCleaning(df) ==
    AndThen(AndThen(AndThen(AndThen(AndThen(AndThen(AndThen(AndThen(AndThen(AndThen(AndThen(AndThen(AndThen(lower_columns(df),
        "family_members"),
        "upgrade_and_drop"),
        "set_index"),
        "clean_zip"),
        "clean_city"),
        "clean_union_member"),
        "clean_join_date"),
        "join_periods"),
        "clean_xdate"),
        "clean_lengths"),
        "clean_status"),
        "clean_type"),
        "geocode")

\* BRANCH_ZIPS_PATH read by tagged_with_branches (line 197): zip -> branch
branch_zips ==
    (<<48, 52, 48, 49, 49>> :> Txt.Brunswick) @@     \* "04011"
    (<<48, 52, 50, 56, 50>> :> Txt.Portland)         \* "04282"

\* lines 189-192
branch_name_from_zip(zip_code, lookup) ==
    LET cleaned_zip_code == FirstSegment(format_zip_code(zip_code).s, 45)
    IN IF cleaned_zip_code \in DOMAIN lookup THEN Str(lookup[cleaned_zip_code]) ELSE Str(<<>>)

\* line 203, on one table
tag_branch(df) ==
    SetColumn(df, Col.branch,
              [i \in DOMAIN df.idx |-> branch_name_from_zip(df.cols[Col.zip][i], branch_zips)])

\* pd.read_csv (line 142): the rows under a RangeIndex
ReadCsv(rows) ==
    [index |-> <<>>,
     idx |-> [i \in DOMAIN rows |-> IntCell(i - 1)],
     cols |-> [c \in DOMAIN rows[1] |-> [i \in DOMAIN rows |-> rows[i][c]]]]

\* the zip cells of the raw tables: with and without leading zero, as text
\* and as number, with and without plus-four suffix, in and out of the lookup
ZipCells ==
    { Str(Digits(<<0, 4, 0, 1, 1>>)),                       \* "04011"
      Str(Digits(<<4, 0, 1, 1>>)),                          \* "4011"
      IntCell(4011),
      Str(Digits(<<0, 4, 2, 8, 2>>) \o <<45>> \o Digits(<<0, 0, 1, 3>>)),   \* "04282-0013"
      Str(Digits(<<4, 2, 8, 2>>) \o <<45>> \o Digits(<<0, 0, 1, 3>>)),      \* "4282-0013"
      Str(Digits(<<0, 4, 9, 9, 9>>)),                       \* "04999"
      Str(Digits(<<0, 4, 9, 9, 9>>) \o <<45>> \o Digits(<<0, 0, 0, 1>>)) }  \* "04999-0001"

IsoCell(y, m, d) == Str(IsoFormat(<<y, m, d>>))

JoinCells == {IsoCell(1982, 6, 1), IsoCell(2021, 11, 15), NaN}

XdateCells == {IsoCell(2023, 1, 1), IsoCell(2099, 11, 1), IsoCell(2021, 3, 1), NaN}

StatusCells == {Str(Txt.expired), Str(Txt.Expired), Str(Txt.EXPIRED), Str(Txt.MIGS_title), Str(Txt.member)}

TypeCells == {Str(Txt.annual), Str(Txt.monthly), Str(Txt.lifetime), Str(Txt.Lifetime)}

\* a CSV row with the canonical columns
Row(id, zip_cell, join_cell, xdate_cell, status_cell, type_cell) ==
    (Col.actionkit_id :> IntCell(id)) @@ (Col.first_name :> Str(Txt.sam)) @@
    (Col.address1 :> Str(Txt.main_st)) @@ (Col.city :> Str(Txt.portland)) @@
    (Col.state :> Str(Txt.ME)) @@ (Col.zip :> zip_cell) @@
    (Col.join_date :> join_cell) @@ (Col.xdate :> xdate_cell) @@
    (Col.membership_status :> status_cell) @@ (Col.membership_type :> type_cell) @@
    (Col.union_member :> IntCell(1))

\* the tables of one row
OneRowTables ==
    { ReadCsv(<<Row(178705, z, j, x, s, t)>>) :
        z \in ZipCells, j \in JoinCells, x \in XdateCells, s \in StatusCells, t \in TypeCells }

\* a few rows for the tables of two rows
SomeRows(id) ==
    { Row(id, Str(Digits(<<0, 4, 0, 1, 1>>)), IsoCell(1982, 6, 1), IsoCell(2023, 1, 1),
          Str(Txt.MIGS_title), Str(Txt.annual)),
      Row(id, IntCell(4011), IsoCell(2021, 11, 15), IsoCell(2099, 11, 1),
          Str(Txt.expired), Str(Txt.monthly)),
      Row(id, Str(Digits(<<0, 4, 9, 9, 9>>)), NaN, IsoCell(2021, 3, 1),
          Str(Txt.EXPIRED), Str(Txt.lifetime)) }

TwoRowTables == { ReadCsv(<<r1, r2>>) : r1 \in SomeRows(28855), r2 \in SomeRows(222251) }

\* the columns whose presence varies in the raw tables, each with a cell of
\* its own: canonical names, aliases (one in upper case), drop-listed names
OptionalColumns ==
    (Col.actionkit_id :> IntCell(1)) @@ (Col.akid :> IntCell(2)) @@ (Col.AK_ID_upper :> IntCell(3)) @@
    (Col.address1 :> Str(Txt.main_st)) @@ (Col.billing_address_line_1 :> Str(Txt.elm_st)) @@
    (Col.mailing_address1 :> Str(Txt.oak_st)) @@
    (Col.zip :> Str(Digits(<<0, 4, 0, 1, 1>>))) @@ (Col.mailing_zip :> IntCell(4282)) @@
    (Col.organization :> Str(Txt.ME)) @@ (Col.family_first_name :> Str(Txt.sam))

\* the columns every raw table of varying columns has
FixedColumns ==
    (Col.family_last_name :> Str(Txt.lee)) @@ (Col.first_name :> Str(Txt.sam)) @@
    (Col.city :> Str(Txt.bath)) @@ (Col.state :> Str(Txt.ME)) @@
    (Col.join_date :> IsoCell(2021, 11, 15)) @@ (Col.xdate :> IsoCell(2023, 1, 1)) @@
    (Col.membership_status :> Str(Txt.member)) @@ (Col.membership_type :> Str(Txt.monthly))

ColumnTables ==
    { ReadCsv(<<[c \in present \cup DOMAIN FixedColumns |->
                    IF c \in present THEN OptionalColumns[c] ELSE FixedColumns[c]]>>) :
        present \in SUBSET DOMAIN OptionalColumns }

RawTables == OneRowTables \cup TwoRowTables \cup ColumnTables

\* a CSV has been read (scan_memb_list_from_csv); nothing else is used
InitClean ==
    /\ archive = {}
    /\ pklState = "missing"
    /\ pkl = <<>>
    /\ branchFile = TRUE
    /\ MEMB_LISTS = <<>>
    /\ lastRun = NoRun
    /\ geoFile = [exists |-> FALSE, json |-> <<>>]
    /\ geoCache = <<>>
    /\ hasToken = FALSE
    /\ apiCalls = [a \in {} |-> 0]
    /\ boots = 0
    /\ lastCall = <<>>
    /\ elapsed = 0
    /\ num_calls = 0
    /\ served = 0
    /\ caller = NoCaller
    /\ lastView = NoView
    /\ raw \in RawTables
    /\ frame = Ok(raw)
    /\ stage = "read"
    /\ members = <<>>
    /\ pivoted = NoPivot
    /\ resolver = "none"
    /\ workers = <<>>
    /\ cache_lock = 0
    /\ poolCache = <<>>
    /\ poolFile = [exists |-> FALSE, json |-> <<>>]
    /\ poolCalls = <<>>
    /\ _fetch_state = [running |-> FALSE, status |-> <<>>]
    /\ threads = <<>>
    /\ poll = [disabled |-> TRUE, children |-> <<>>]
    /\ n_clicks = 0

\* data_cleaning(df) on the table read
Clean ==
    /\ stage = "read"
    /\ frame' = DataCleaning(frame.v)
    /\ stage' = IF frame'.ok THEN "cleaned" ELSE "raised"
    /\ UNCHANGED <<raw, storeVars, geoVars, limitVars, pageVars, retentionVars, poolVars, fetchVars>>

\* data_cleaning(df) on a table data_cleaning returned
CleanAgain ==
    /\ stage = "cleaned"
    /\ frame' = DataCleaning(frame.v)
    /\ stage' = IF frame'.ok THEN "cleaned twice" ELSE "raised on a cleaned table"
    /\ UNCHANGED <<raw, storeVars, geoVars, limitVars, pageVars, retentionVars, poolVars, fetchVars>>

\* tagged_with_branches on the cleaned table
TagBranches ==
    /\ stage = "cleaned"
    /\ frame' = Ok(tag_branch(frame.v))
    /\ stage' = "tagged"
    /\ UNCHANGED <<raw, storeVars, geoVars, limitVars, pageVars, retentionVars, poolVars, fetchVars>>

NextClean == Clean \/ CleanAgain \/ TagBranches

SpecClean == InitClean /\ [][NextClean]_vars

----------------------------------------------------------------------------
(* Claims on the normalizer *)

Rows(df) == DOMAIN df.idx

Cell(df, name, i) == df.cols[name][i]

\* data_cleaning has returned the table in frame
Cleaned == stage = "cleaned"

\* C13 (as claimed): in every row of a table returned by data_cleaning,
\* membership_type is "lifetime" if and only if xdate is 2099-11-01.
C13_LifetimeIffSentinel ==
    Cleaned =>
        \A i \in Rows(frame.v) :
            Cell(frame.v, Col.membership_type, i) = Str(Txt.lifetime)
                <=> Cell(frame.v, Col.xdate, i) = LifetimeXdate

\* C13 (amended): a row whose xdate is 2099-11-01 has membership_type
\* "lifetime" whatever the source carried; a row with any other xdate, or none,
\* has "lifetime" exactly when its source type spells "lifetime" in some
\* letter case.
C13_LifetimeIfSentinel ==
    Cleaned =>
        \A i \in Rows(frame.v) :
            LET type == Cell(frame.v, Col.membership_type, i)
                source == Cell(raw, Col.membership_type, i)
            IN IF Cell(frame.v, Col.xdate, i) = LifetimeXdate
               THEN type = Str(Txt.lifetime)
               ELSE type = Str(Txt.lifetime) <=> Lower(source.s) = Txt.lifetime

\* C13 witness: a returned table with a row made lifetime by its xdate, the
\* source saying monthly, and a row that is lifetime with another xdate
C13_Witness ==
    /\ Cleaned
    /\ \E i, j \in Rows(frame.v) :
        /\ Cell(frame.v, Col.xdate, i) = LifetimeXdate
        /\ Cell(raw, Col.membership_type, i) = Str(Txt.monthly)
        /\ Cell(frame.v, Col.membership_type, i) = Str(Txt.lifetime)
        /\ Cell(frame.v, Col.xdate, j) # LifetimeXdate
        /\ Cell(frame.v, Col.membership_type, j) = Str(Txt.lifetime)


\* the rows of the returned table that have both dates
Dated(df) == {i \in Rows(df) : Cell(df, Col.join_date, i).t = "date" /\ Cell(df, Col.xdate, i).t = "date"}

\* months and years of a row are the difference of the calendar months and
\* its floor division by 12
LengthsAsDefined(df, i) ==
    LET join == Cell(df, Col.join_date, i).s
        x == Cell(df, Col.xdate, i).s
        months == Cell(df, Col.membership_length_months, i)
        years == Cell(df, Col.membership_length_years, i)
    IN /\ months = IntCell(12 * (x[1] - join[1]) + (x[2] - join[2]))
       /\ years.t = "int"
       /\ 12 * years.s[1] <= months.s[1]
       /\ months.s[1] < 12 * years.s[1] + 12
       /\ (join = <<2021, 11, 15>> /\ x = <<2023, 1, 1>>) => months.s[1] = 14 /\ years.s[1] = 1
       /\ (join = <<1982, 6, 1>> /\ x = <<2023, 1, 1>>) => years.s[1] = 40

\* C14 (as claimed): membership_length_months is 12 * (the difference of the
\* years) + (the difference of the months), membership_length_years its floor
\* division by 12, and both are >= 0 for every pair of join_date and xdate.
C14_LengthsNeverNegative ==
    Cleaned =>
        \A i \in Dated(frame.v) :
            /\ LengthsAsDefined(frame.v, i)
            /\ Cell(frame.v, Col.membership_length_months, i).s[1] >= 0
            /\ Cell(frame.v, Col.membership_length_years, i).s[1] >= 0

\* C14 (amended): the two lengths are computed as claimed, and they are >= 0
\* exactly when the month of xdate is not before the month of join_date; an
\* xdate in an earlier month gives negative months and negative years.
C14_LengthsSigned ==
    Cleaned =>
        \A i \in Dated(frame.v) :
            LET join == Cell(frame.v, Col.join_date, i).s
                x == Cell(frame.v, Col.xdate, i).s
                notBefore == x[1] > join[1] \/ (x[1] = join[1] /\ x[2] >= join[2])
            IN /\ LengthsAsDefined(frame.v, i)
               /\ Cell(frame.v, Col.membership_length_months, i).s[1] >= 0 <=> notBefore
               /\ Cell(frame.v, Col.membership_length_years, i).s[1] >= 0 <=> notBefore

\* C14 witness: a member joined 2021-11-15 with xdate 2021-03-01 is returned
\* with -8 months and -1 years
C14_Witness ==
    /\ Cleaned
    /\ \E i \in Dated(frame.v) :
        /\ Cell(frame.v, Col.join_date, i) = Timestamp(2021, 11, 15)
        /\ Cell(frame.v, Col.xdate, i) = Timestamp(2021, 3, 1)
        /\ Cell(frame.v, Col.membership_length_months, i) = IntCell(0 - 8)
        /\ Cell(frame.v, Col.membership_length_years, i) = IntCell(0 - 1)


AllDigits(text) == \A k \in DOMAIN text : text[k] \in 48..57

\* five digits, or five digits, a hyphen and four digits
FiveOrPlusFour(text) ==
    \/ Len(text) = 5 /\ AllDigits(text)
    \/ /\ Len(text) = 10
       /\ AllDigits(SubSeq(text, 1, 5))
       /\ text[6] = 45
       /\ AllDigits(SubSeq(text, 7, 10))

\* C15 (as claimed): in a returned table every zip is a str of exactly 5
\* zero-padded digits, optionally followed by -NNNN, whether the source zip
\* was an int or a str, had lost its leading zeros or not, had a plus-four
\* suffix or not; format_zip_code(4011) is "04011".
C15_ZipFiveOrPlusFour ==
    /\ format_zip_code(IntCell(4011)) = Str(Digits(<<0, 4, 0, 1, 1>>))
    /\ Cleaned =>
        \A i \in Rows(frame.v) :
            /\ Cell(frame.v, Col.zip, i).t = "str"
            /\ FiveOrPlusFour(Cell(frame.v, Col.zip, i).s)


\* the bare 5-digit zip of a zip value: the part before the hyphen, zero-padded
Zip5(cell) == Zfill(FirstSegment(PyStr(cell), 45), 5)

\* C16 (as claimed): the branch given to a zip, with or without a 4-digit
\* suffix, with or without its leading zeros, is the branch of its bare
\* zero-padded 5-digit zip, and it is the empty string exactly when that
\* 5-digit zip is not in the lookup table.
C16_BranchOfFiveDigitZip ==
    stage = "tagged" =>
        \A i \in Rows(frame.v) :
            LET zip_code == Cell(frame.v, Col.zip, i)
                branch == Cell(frame.v, Col.branch, i)
            IN /\ branch = branch_name_from_zip(Str(Zip5(zip_code)), branch_zips)
               /\ branch = Str(<<>>) <=> Zip5(zip_code) \notin DOMAIN branch_zips


\* the column names of the raw table as line 94 leaves them
RawNames == {Lower(k) : k \in Columns(raw)}

\* the raw column whose lowercased name is given
RawColumn(name) == raw.cols[CHOOSE k \in Columns(raw) : Lower(k) = name]

Aliases == {FIELD_UPGRADE_PAIRS[i].old : i \in DOMAIN FIELD_UPGRADE_PAIRS}

DropListed == {FIELD_DROP[i] : i \in DOMAIN FIELD_DROP}

\* where the claim takes a canonical column from: the column itself, else
\* the first alias present in declared order, else nowhere (<<>>)
SourceOf(path) ==
    IF path.new \in RawNames THEN path.new
    ELSE LET present == {i \in DOMAIN path.old : path.old[i] \in RawNames}
         IN IF present = {} THEN <<>>
            ELSE path.old[CHOOSE i \in present : \A j \in present : i <= j]

\* what the later lines of data_cleaning make of a cell of a canonical column
Normalized(name, cell) ==
    IF name = Col.zip THEN format_zip_code(cell)
    ELSE IF name = Col.city THEN (IF cell.t = "str" THEN Str(Title(cell.s)) ELSE NaN)
    ELSE cell

\* C17: for every canonical field of FIELD_UPGRADE_PATHS and every set of raw
\* columns, the returned table has the canonical column from the raw canonical
\* column if there is one, else from the first alias present in declared
\* order, else not at all (actionkit_id as the index), and it has no alias
\* column and no drop-listed column.
C17_CanonicalColumns ==
    Cleaned =>
        /\ \A p \in DOMAIN FIELD_UPGRADE_PATHS :
            LET path == FIELD_UPGRADE_PATHS[p]
                source == SourceOf(path)
            IN IF source = <<>>
               THEN path.new \notin Columns(frame.v) /\ path.new # frame.v.index
               ELSE LET expected == [i \in Rows(frame.v) |->
                                        Normalized(path.new, RawColumn(source)[i])]
                    IN IF path.new = Col.actionkit_id
                       THEN frame.v.index = Col.actionkit_id /\ frame.v.idx = expected
                       ELSE path.new \in Columns(frame.v) /\ frame.v.cols[path.new] = expected
        /\ Columns(frame.v) \cap (Aliases \cup DropListed) = {}

\* C17 witness: a table returned for a CSV that has no address1 but two of
\* its aliases, the id under AK_ID only, zip and mailing_zip both, and a
\* drop-listed column: address1 is the first alias, zip the canonical one
C17_Witness ==
    /\ Cleaned
    /\ Col.address1 \notin Columns(raw)
    /\ {Col.billing_address_line_1, Col.mailing_address1, Col.AK_ID_upper, Col.zip, Col.mailing_zip,
        Col.organization} \subseteq Columns(raw)
    /\ {Col.actionkit_id, Col.akid} \cap Columns(raw) = {}
    /\ frame.v.cols[Col.address1] = <<Str(Txt.elm_st)>>
    /\ frame.v.idx = <<IntCell(3)>>
    /\ frame.v.cols[Col.zip] = <<Str(Digits(<<0, 4, 0, 1, 1>>))>>


\* C18 (as claimed): data_cleaning returns no table for a CSV in which a row
\* lacks join_date or xdate (it raises), so a returned table has both dates
\* and both membership lengths in every row.
C18_MissingDateRaises ==
    Cleaned =>
        /\ \A i \in Rows(raw) :
            RawColumn(Col.join_date)[i] # NaN /\ RawColumn(Col.xdate)[i] # NaN
        /\ \A i \in Rows(frame.v) :
            /\ Cell(frame.v, Col.join_date, i).t = "date"
            /\ Cell(frame.v, Col.xdate, i).t = "date"
            /\ Cell(frame.v, Col.membership_length_months, i).t = "int"
            /\ Cell(frame.v, Col.membership_length_years, i).t = "int"


\* C19 (as claimed): in a returned table no membership_status spells
\* "expired" in any letter case, every row whose source status spells
\* "expired" in any letter case has "lapsed", and every status is lowercase.
C19_ExpiredBecomesLapsed ==
    Cleaned =>
        \A i \in Rows(frame.v) :
            LET status == Cell(frame.v, Col.membership_status, i)
                source == RawColumn(Col.membership_status)[i]
            IN /\ Lower(status.s) # Txt.expired
               /\ Lower(source.s) = Txt.expired => status = Str(Txt.lapsed)
               /\ status.s = Lower(status.s)


\* a step in which data_cleaning is applied to a table it returned
SecondPass == stage = "cleaned" /\ stage' # "tagged"

\* C20 (as claimed): data_cleaning applied to a table it returned completes
\* and returns an equal table (same index, same columns, same values).
C20_Idempotent == [][SecondPass => frame'.ok /\ frame'.v = frame.v]_vars

\* C20 (amended): data_cleaning applied to a table it returned does not
\* complete: it raises KeyError, the first call having made actionkit_id the
\* index.
C20_SecondPassRaises == [][SecondPass => ~frame'.ok /\ frame'.err = "KeyError"]_vars

\* C20 witness: the second call on a returned table has raised KeyError
C20_Witness ==
    /\ stage = "raised on a cleaned table"
    /\ frame = Raise("KeyError")
    /\ Col.actionkit_id \in RawNames

----------------------------------------------------------------------------
(* Retention tables (src/src/utils/retention.py)                           *)
(* A table given to these functions is a sequence of rows, a row a record  *)
(* of cells by column name.  A pivot is [index, columns, values]: the row  *)
(* labels, the column labels and the rows of cells.  A quotient of two     *)
(* counts is kept as a fraction in lowest terms.                           *)

MaxMembers == 3     \* rows of the table given to the retention functions

\* class Columns, lines 6-11
RetentionColumns ==
    [COUNTING_COLUMN |-> "zip",
     JOIN_YEAR |-> "join_year",
     JOIN_QUARTER |-> "join_quarter",
     MEMBERSHIP_LENGTH_YEARS |-> "membership_length_years",
     MEMBERSHIP_LENGTH_MONTHS |-> "membership_length_months"]

None == [t |-> "none", s |-> <<>>]

RECURSIVE Gcd(_, _)
Gcd(a, b) == IF b = 0 THEN a ELSE Gcd(b, a % b)

Abs(n) == IF n < 0 THEN -n ELSE n

\* the float n / d, d > 0
Float(n, d) ==
    [t |-> "float", s |-> <<n \div Gcd(Abs(n), d), d \div Gcd(Abs(n), d)>>]

\* a cell as a fraction <<numerator, denominator>>
Fraction(cell) == IF cell.t = "int" THEN <<cell.s[1], 1>> ELSE cell.s

IsNull(cell) == cell.t \in {"nan", "nat", "none"}

\* the order of two labels of one axis (timestamps or integers)
Before(a, b) ==
    \E k \in DOMAIN a.s : a.s[k] < b.s[k] /\ \A j \in 1..(k - 1) : a.s[j] = b.s[j]

Least(labels) == CHOOSE x \in labels : \A y \in labels : ~Before(y, x)

RECURSIVE SortedLabels(_)
SortedLabels(labels) ==
    IF labels = {} THEN <<>>
    ELSE <<Least(labels)>> \o SortedLabels(labels \ {Least(labels)})

\* the rows that groupby keeps: no null key
Grouped(df, index, columns) ==
    {i \in DOMAIN df : ~IsNull(df[i][index]) /\ ~IsNull(df[i][columns])}

\* the pivot over given sorted axis labels: aggfunc=len, fill_value=0
PivotOver(df, index, columns, idx, cols) ==
    [index |-> idx,
     columns |-> cols,
     values |-> [r \in DOMAIN idx |-> [c \in DOMAIN cols |->
         IntCell(Cardinality({i \in Grouped(df, index, columns) :
                                df[i][index] = idx[r] /\ df[i][columns] = cols[c]}))]]]

\* df.pivot_table(index=[index], columns=[columns], values=Columns.COUNTING_COLUMN,
\*                fill_value=0, aggfunc=len), lines 28-34
pivot_table(df, index, columns) ==
    PivotOver(df, index, columns,
              SortedLabels({df[i][index] : i \in Grouped(df, index, columns)}),
              SortedLabels({df[i][columns] : i \in Grouped(df, index, columns)}))

\* DataFrame.transpose()
transpose(f) ==
    [index |-> f.columns,
     columns |-> f.index,
     values |-> [c \in DOMAIN f.columns |-> [r \in DOMAIN f.index |-> f.values[r][c]]]]

\* f[::-1], the rows in reverse order
reversed(f) ==
    [index |-> [r \in DOMAIN f.index |-> f.index[Len(f.index) + 1 - r]],
     columns |-> f.columns,
     values |-> [r \in DOMAIN f.index |-> f.values[Len(f.index) + 1 - r]]]

\* the sum of the first r cells of column c
RECURSIVE ColumnSum(_, _, _)
ColumnSum(values, c, r) ==
    IF r = 0 THEN 0 ELSE values[r][c].s[1] + ColumnSum(values, c, r - 1)

\* faulty variant: the counts left as they are
cumsum_skipped(f) == f

\* DataFrame.cumsum(), down the rows
cumsum(f) ==
    [f EXCEPT !.values = [r \in DOMAIN f.index |-> [c \in DOMAIN f.columns |->
                             IntCell(ColumnSum(f.values, c, r))]]]

\* DataFrame.sum(), one total per column
sum(f) == [c \in DOMAIN f.columns |-> ColumnSum(f.values, c, Len(f.index))]

\* DataFrame / Series, the series aligned on the columns
divide(f, totals) ==
    [f EXCEPT !.values = [r \in DOMAIN f.index |-> [c \in DOMAIN f.columns |->
                             IF totals[c] = 0 THEN NaN
                             ELSE Float(f.values[r][c].s[1], totals[c])]]]

\* one cell of replace(to_replace=0, value=None)
replace_cell(cell) ==
    IF cell.t \in {"int", "float"} /\ cell.s[1] = 0 THEN None ELSE cell

\* faulty variant: zero counts left in place
replace_nothing(f) == f

\* DataFrame.replace(to_replace=0, value=None)
replace(f) ==
    [f EXCEPT !.values = [r \in DOMAIN f.index |-> [c \in DOMAIN f.columns |->
                             replace_cell(f.values[r][c])]]]

\* lines 18-39
retention_origin(df, join_year, length) ==
    replace(transpose(reversed(cumsum(reversed(transpose(pivot_table(df, join_year, length)))))))

\* lines 42-44
retention_year(df) ==
    retention_origin(df, RetentionColumns.JOIN_YEAR, RetentionColumns.MEMBERSHIP_LENGTH_YEARS)

\* lines 47-49
retention_mos(df) ==
    retention_origin(df, RetentionColumns.JOIN_YEAR, RetentionColumns.MEMBERSHIP_LENGTH_MONTHS)

\* lines 61-67 and 83-89: the pivot, transposed and reversed
reversed_pivot(df, join_year, length) == reversed(transpose(pivot_table(df, join_year, length)))

\* line 68: pivot.cumsum() / pivot.sum()
share_retained(pivot) == divide(cumsum(pivot), sum(pivot))

\* lines 52-68
retention_pct_origin(df, join_year, length) ==
    replace(transpose(reversed(share_retained(reversed_pivot(df, join_year, length)))))

\* lines 71-73
retention_pct_year(df) ==
    retention_pct_origin(df, RetentionColumns.JOIN_YEAR, RetentionColumns.MEMBERSHIP_LENGTH_YEARS)

\* lines 76-78
retention_pct_mos(df) ==
    retention_pct_origin(df, RetentionColumns.JOIN_YEAR, RetentionColumns.MEMBERSHIP_LENGTH_MONTHS)

\* DataFrame.infer_objects(copy=False), one cell: None in a numeric column is NaN
infer_objects_cell(cell) == IF cell.t = "none" THEN NaN ELSE cell

\* the nearest row above r that holds a value in column c, 0 when there is none
ValueAbove(values, c, r) ==
    IF \E p \in 1..(r - 1) : ~IsNull(values[p][c])
    THEN CHOOSE p \in 1..(r - 1) :
             ~IsNull(values[p][c]) /\ \A k \in (p + 1)..(r - 1) : IsNull(values[k][c])
    ELSE 0

\* the nearest row below r that holds a value in column c, 0 when there is none
ValueBelow(values, c, r) ==
    IF \E q \in (r + 1)..Len(values) : ~IsNull(values[q][c])
    THEN CHOOSE q \in (r + 1)..Len(values) :
             ~IsNull(values[q][c]) /\ \A k \in (r + 1)..(q - 1) : IsNull(values[k][c])
    ELSE 0

\* the point at step k of n on the line from a to b
Linear(a, b, k, n) ==
    Float(Fraction(a)[1] * Fraction(b)[2] * (n - k) + Fraction(b)[1] * Fraction(a)[2] * k,
          Fraction(a)[2] * Fraction(b)[2] * n)

\* one cell of interpolate(limit=1, limit_area="inside") given the rows p above
\* and q below that hold a value: the first NaN of a gap between two values
interpolate_cell(values, c, r, p, q) ==
    IF IsNull(values[r][c]) /\ p # 0 /\ q # 0 /\ r = p + 1
    THEN Linear(values[p][c], values[q][c], r - p, q - p)
    ELSE values[r][c]

\* DataFrame.interpolate(limit=1, limit_area="inside"): method="linear" and
\* axis=0 by default, so every column is filled down the rows
interpolate(f) ==
    [f EXCEPT !.values = [r \in DOMAIN f.index |-> [c \in DOMAIN f.columns |->
        interpolate_cell(f.values, c, r, ValueAbove(f.values, c, r), ValueBelow(f.values, c, r))]]]

\* DataFrame.infer_objects(copy=False)
infer_objects(f) ==
    [f EXCEPT !.values = [r \in DOMAIN f.index |-> [c \in DOMAIN f.columns |->
                             infer_objects_cell(f.values[r][c])]]]

\* lines 81-92
retention_pct_quarter(df) ==
    interpolate(infer_objects(
        retention_pct_origin(df, RetentionColumns.JOIN_QUARTER,
                             RetentionColumns.MEMBERSHIP_LENGTH_YEARS)))

\* the dates of the model rows: three members-to-be joining in 2020 Q1, 2020 Q3
\* and 2021 Q1, each expiring 5, 17 or 29 months later or without an xdate
JoinDates == <<Timestamp(2020, 2, 10), Timestamp(2020, 8, 3), Timestamp(2021, 2, 1)>>

AddMonths(date, k) ==
    Timestamp(date.s[1] + (date.s[2] - 1 + k) \div 12, ((date.s[2] - 1 + k) % 12) + 1, date.s[3])

Xdates(join_date) ==
    <<AddMonths(join_date, 5), AddMonths(join_date, 17), AddMonths(join_date, 29), NaT>>

\* a row as data_cleaning leaves it (scan_lists.py lines 117-122)
MemberRow(join_date, xdate) ==
    [zip |-> Str(<<48, 52, 49, 48, 49>>),
     join_year |-> YearStart(join_date),
     join_quarter |-> QuarterStart(join_date),
     membership_length_months |-> membership_length_months(join_date, xdate),
     membership_length_years |-> FloorDiv12(membership_length_months(join_date, xdate))]

MemberChoices ==
    [n \in 1..(Len(JoinDates) * 4) |->
        MemberRow(JoinDates[(n - 1) \div 4 + 1], Xdates(JoinDates[(n - 1) \div 4 + 1])[((n - 1) % 4) + 1])]

\* the tables of 1..MaxMembers rows; the order of the rows does not matter to
\* pivot_table, so one order of each choice of rows is kept
Rosters ==
    UNION { { [i \in 1..n |-> MemberChoices[s[i]]] :
                s \in {t \in [1..n -> DOMAIN MemberChoices] :
                          \A i \in 1..(n - 1) : t[i] <= t[i + 1]} } :
            n \in 1..MaxMembers }

InitRetention ==
    /\ archive = {}
    /\ pklState = "missing"
    /\ pkl = <<>>
    /\ branchFile = FALSE
    /\ MEMB_LISTS = <<>>
    /\ lastRun = NoRun
    /\ geoFile = [exists |-> FALSE, json |-> <<>>]
    /\ geoCache = <<>>
    /\ hasToken = FALSE
    /\ apiCalls = [a \in {} |-> 0]
    /\ boots = 0
    /\ lastCall = <<>>
    /\ elapsed = 0
    /\ num_calls = 0
    /\ served = 0
    /\ caller = NoCaller
    /\ lastView = NoView
    /\ raw = NoTable
    /\ frame = NoTable
    /\ stage = "unused"
    /\ members \in Rosters
    /\ pivoted = NoPivot
    /\ resolver = "none"
    /\ workers = <<>>
    /\ cache_lock = 0
    /\ poolCache = <<>>
    /\ poolFile = [exists |-> FALSE, json |-> <<>>]
    /\ poolCalls = <<>>
    /\ _fetch_state = [running |-> FALSE, status |-> <<>>]
    /\ threads = <<>>
    /\ poll = [disabled |-> TRUE, children |-> <<>>]
    /\ n_clicks = 0

Apply(op, table) ==
    /\ pivoted.op = "none"
    /\ pivoted' = [op |-> op, table |-> table]
    /\ UNCHANGED <<members, storeVars, geoVars, limitVars, pageVars, cleanVars, poolVars, fetchVars>>

RetentionYear == Apply("retention_year", retention_year(members))

RetentionMos == Apply("retention_mos", retention_mos(members))

RetentionPctYear == Apply("retention_pct_year", retention_pct_year(members))

RetentionPctMos == Apply("retention_pct_mos", retention_pct_mos(members))

RetentionPctQuarter == Apply("retention_pct_quarter", retention_pct_quarter(members))

NextRetention ==
    RetentionYear \/ RetentionMos \/ RetentionPctYear \/ RetentionPctMos \/ RetentionPctQuarter

SpecRetention == InitRetention /\ [][NextRetention]_vars


----------------------------------------------------------------------------
(* Claims on the retention tables *)

CountTables == {"retention_year", "retention_mos"}

ShareTables == {"retention_pct_year", "retention_pct_mos"}

\* the tenure column a table is built on
LengthOf(op) ==
    IF op \in {"retention_mos", "retention_pct_mos"}
    THEN RetentionColumns.MEMBERSHIP_LENGTH_MONTHS
    ELSE RetentionColumns.MEMBERSHIP_LENGTH_YEARS

\* the cohort column a table is built on
CohortOf(op) ==
    IF op = "retention_pct_quarter"
    THEN RetentionColumns.JOIN_QUARTER
    ELSE RetentionColumns.JOIN_YEAR

Populated(f, r, c) == ~IsNull(f.values[r][c])

\* the members of the cohort of row r whose tenure is known
Known(op, f, r) ==
    {i \in DOMAIN members : members[i][CohortOf(op)] = f.index[r]
                              /\ ~IsNull(members[i][LengthOf(op)])}

\* those of them whose tenure is at least that of column c
Reached(op, f, r, c) ==
    {i \in Known(op, f, r) : ~Before(members[i][LengthOf(op)], f.columns[c])}

\* C21: in a table of retention_year or retention_mos, along every cohort row,
\* a populated cell at a longer tenure is preceded at every shorter tenure by a
\* populated cell that is at least as large: the counts never increase with
\* tenure and the populated cells are a prefix of the tenure axis.
C21_NonIncreasingPrefix ==
    pivoted.op \in CountTables =>
        \A r \in DOMAIN pivoted.table.index : \A c1, c2 \in DOMAIN pivoted.table.columns :
            Before(pivoted.table.columns[c1], pivoted.table.columns[c2])
            /\ Populated(pivoted.table, r, c2)
            => /\ Populated(pivoted.table, r, c1)
               /\ pivoted.table.values[r][c1].s[1] >= pivoted.table.values[r][c2].s[1]

\* a row that falls from 2 to 1 and then ends in a missing cell
C21_Witness ==
    /\ pivoted.op = "retention_year"
    /\ \E r \in DOMAIN pivoted.table.index :
          /\ Len(pivoted.table.columns) = 3
          /\ pivoted.table.values[r][1] = IntCell(2)
          /\ pivoted.table.values[r][2] = IntCell(1)
          /\ pivoted.table.values[r][3] = None

\* C25: in a table of retention_year or retention_mos, the cell of cohort c and
\* tenure t is the number of members of the table whose join year is c and
\* whose tenure is at least t, and the missing marker when that number is 0.
C25_CellCountsReached ==
    pivoted.op \in CountTables =>
        \A r \in DOMAIN pivoted.table.index : \A c \in DOMAIN pivoted.table.columns :
            pivoted.table.values[r][c] =
                IF Reached(pivoted.op, pivoted.table, r, c) = {} THEN None
                ELSE IntCell(Cardinality(Reached(pivoted.op, pivoted.table, r, c)))

\* a table in months with a count of 2 and a missing cell
C25_Witness ==
    /\ pivoted.op = "retention_mos"
    /\ \E r \in DOMAIN pivoted.table.index : \E c1, c2 \in DOMAIN pivoted.table.columns :
          /\ pivoted.table.values[r][c1] = IntCell(2)
          /\ pivoted.table.values[r][c2] = None
          /\ Cardinality(Reached(pivoted.op, pivoted.table, r, c1)) = 2


\* all members of the cohort of row r, with or without a known tenure
Cohort(op, f, r) == {i \in DOMAIN members : members[i][CohortOf(op)] = f.index[r]}

\* C22: in a table of retention_pct_year or retention_pct_mos, every populated
\* cell is the number of members of the cohort with tenure >= t divided by the
\* number of all members of the cohort, and so lies between 0 and 1.
C22_ShareOfCohort ==
    pivoted.op \in ShareTables =>
        \A r \in DOMAIN pivoted.table.index : \A c \in DOMAIN pivoted.table.columns :
            Populated(pivoted.table, r, c) =>
                /\ pivoted.table.values[r][c] =
                       Float(Cardinality(Reached(pivoted.op, pivoted.table, r, c)),
                             Cardinality(Cohort(pivoted.op, pivoted.table, r)))
                /\ 0 <= pivoted.table.values[r][c].s[1]
                /\ pivoted.table.values[r][c].s[1] <= pivoted.table.values[r][c].s[2]

----------------------------------------------------------------------------
(* Worker threads resolving through persist_to_file                        *)
(* (src/src/utils/action_network.py lines 20-44, with cache_lock, and      *)
(* src/src/utils/geocoding.py lines 20-41, without a lock).  A step of a   *)
(* worker is one statement of new_func; the threads interleave between the *)
(* statements.                                                             *)

Workers == {1, 2}

Emails == {"a@example.org", "b@example.org"}

Resolvers == {"action_network", "geocoding"}

\* the parameters the workers are given
Requests == IF resolver = "geocoding" THEN Addresses ELSE Emails

\* action_network.py line 35: `with cache_lock:`; geocoding.py has no such line
Guarded == resolver = "action_network"

\* what original_func(param) returns when it returns
Answer(param) == <<"answer to", param>>

\* json.dump(cache, cache_file): an object of strings or of arrays
PoolDump(cache) ==
    [i \in DOMAIN cache |->
        [k |-> cache[i].k,
         v |-> [t |-> IF resolver = "geocoding" THEN "array" ELSE "string",
                items |-> cache[i].v]]]

Idle == [pc |-> "idle", param |-> "", v |-> <<>>, raised |-> FALSE]

\* leaving the `with cache_lock:` block
Released == IF Guarded THEN 0 ELSE cache_lock

InitWorkers ==
    /\ archive = {}
    /\ pklState = "missing"
    /\ pkl = <<>>
    /\ branchFile = FALSE
    /\ MEMB_LISTS = <<>>
    /\ lastRun = NoRun
    /\ geoFile = [exists |-> FALSE, json |-> <<>>]
    /\ geoCache = <<>>
    /\ hasToken = FALSE
    /\ apiCalls = [a \in {} |-> 0]
    /\ boots = 0
    /\ lastCall = <<>>
    /\ elapsed = 0
    /\ num_calls = 0
    /\ served = 0
    /\ caller = NoCaller
    /\ lastView = NoView
    /\ raw = NoTable
    /\ frame = NoTable
    /\ stage = "unused"
    /\ members = <<>>
    /\ pivoted = NoPivot
    /\ resolver \in Resolvers
    /\ workers = [w \in Workers |-> Idle]
    /\ cache_lock = 0
    /\ poolCache = <<>>
    /\ poolFile = [exists |-> FALSE, json |-> <<>>]
    /\ poolCalls = [p \in Addresses \cup Emails |-> 0]
    /\ _fetch_state = [running |-> FALSE, status |-> <<>>]
    /\ threads = <<>>
    /\ poll = [disabled |-> TRUE, children |-> <<>>]
    /\ n_clicks = 0

\* a worker is handed a parameter: param_hash = sha256(param)
Begin ==
    \E w \in Workers, param \in Requests :
        /\ workers[w].pc = "idle"
        /\ workers' = [workers EXCEPT ![w] = [pc |-> IF Guarded THEN "acquire" ELSE "check",
                                              param |-> param, v |-> <<>>, raised |-> FALSE]]
        /\ UNCHANGED <<resolver, cache_lock, poolCache, poolFile, poolCalls>>
        /\ UNCHANGED <<storeVars, geoVars, limitVars, pageVars, cleanVars, retentionVars, fetchVars>>

\* action_network.py line 35: the worker waits until the lock is free
Acquire ==
    \E w \in Workers :
        /\ workers[w].pc = "acquire"
        /\ cache_lock = 0
        /\ cache_lock' = w
        /\ workers' = [workers EXCEPT ![w].pc = "check"]
        /\ UNCHANGED <<resolver, poolCache, poolFile, poolCalls>>
        /\ UNCHANGED <<storeVars, geoVars, limitVars, pageVars, cleanVars, retentionVars, fetchVars>>

\* `if param_hash not in cache:`; a hit leaves the with block
Check ==
    \E w \in Workers :
        /\ workers[w].pc = "check"
        /\ IF Sha256Hex(workers[w].param) \in Keys(poolCache)
           THEN /\ workers' = [workers EXCEPT ![w].pc = "return"]
                /\ cache_lock' = Released
           ELSE /\ workers' = [workers EXCEPT ![w].pc = "call"]
                /\ UNCHANGED cache_lock
        /\ UNCHANGED <<resolver, poolCache, poolFile, poolCalls>>
        /\ UNCHANGED <<storeVars, geoVars, limitVars, pageVars, cleanVars, retentionVars, fetchVars>>

\* original_func(param): the external call returns, or raises and the
\* exception leaves new_func (and the with block)
Call ==
    \E w \in Workers, raises \in BOOLEAN :
        /\ workers[w].pc = "call"
        /\ poolCalls[workers[w].param] < MaxApiCalls
        /\ poolCalls' = [poolCalls EXCEPT ![workers[w].param] = @ + 1]
        /\ IF raises
           THEN /\ workers' = [workers EXCEPT ![w].pc = "idle", ![w].raised = TRUE]
                /\ cache_lock' = Released
           ELSE /\ workers' = [workers EXCEPT ![w].pc = "store",
                                              ![w].v = Answer(workers[w].param)]
                /\ UNCHANGED cache_lock
        /\ UNCHANGED <<resolver, poolCache, poolFile>>
        /\ UNCHANGED <<storeVars, geoVars, limitVars, pageVars, cleanVars, retentionVars, fetchVars>>

\* cache[param_hash] = <the value returned>
Store ==
    \E w \in Workers :
        /\ workers[w].pc = "store"
        /\ poolCache' = cache_store(poolCache, Sha256Hex(workers[w].param), workers[w].v)
        /\ workers' = [workers EXCEPT ![w].pc = "write"]
        /\ UNCHANGED <<resolver, cache_lock, poolFile, poolCalls>>
        /\ UNCHANGED <<storeVars, geoVars, limitVars, pageVars, cleanVars, retentionVars, fetchVars>>

\* open(file_name, "w") and json.dump(cache, ...); then the with block ends
Write ==
    \E w \in Workers :
        /\ workers[w].pc = "write"
        /\ poolFile' = [exists |-> TRUE, json |-> PoolDump(poolCache)]
        /\ workers' = [workers EXCEPT ![w].pc = "return"]
        /\ cache_lock' = Released
        /\ UNCHANGED <<resolver, poolCache, poolCalls>>
        /\ UNCHANGED <<storeVars, geoVars, limitVars, pageVars, cleanVars, retentionVars, fetchVars>>

\* return cache[param_hash]
Return ==
    \E w \in Workers :
        /\ workers[w].pc = "return"
        /\ workers' = [workers EXCEPT ![w].pc = "idle",
                                      ![w].v = Get(poolCache, Sha256Hex(workers[w].param))]
        /\ UNCHANGED <<resolver, cache_lock, poolCache, poolFile, poolCalls>>
        /\ UNCHANGED <<storeVars, geoVars, limitVars, pageVars, cleanVars, retentionVars, fetchVars>>

NextWorkers == Begin \/ Acquire \/ Check \/ Call \/ Store \/ Write \/ Return

SpecWorkers == InitWorkers /\ [][NextWorkers]_vars

----------------------------------------------------------------------------
(* Claim on the worker threads *)

\* between the check for the key and the end of the rewrite of the file
InCycle(w) == workers[w].pc \in {"check", "call", "store", "write"}

\* C23: the cycle check-for-key / external call / store / rewrite of one
\* worker never overlaps that of another worker; no parameter costs more
\* than one external call in total; and when no worker stands between its
\* store and its rewrite, the file holds every entry stored so far.
C23_CyclesDoNotInterleave ==
    /\ \A w1, w2 \in Workers : w1 # w2 => ~(InCycle(w1) /\ InCycle(w2))
    /\ \A p \in Requests : poolCalls[p] <= 1
    /\ (poolCache # <<>> /\ \A w \in Workers : workers[w].pc # "write")
           => poolFile.exists /\ JsonLoad(poolFile.json) = poolCache

----------------------------------------------------------------------------
(* The process stopping while the geocode cache file is rewritten          *)
(* (src/src/utils/geocoding.py lines 35-36)                                *)

\* what open(mode="w") and an unfinished json.dump leave of a document: the
\* file truncated and the first n items written, the text ending in the
\* middle of the object
Unfinished(json, n) ==
    SubSeq(json, 1, n) \o <<[k |-> <<"eof", "">>, v |-> [t |-> "eof", items |-> <<>>]]>>

\* new_func(param) for a string that is not cached and whose external call
\* returns: line 34 stores the value, line 35 truncates the file, and the
\* process stops before line 36 has written the whole document; then it is
\* started again and the decorator loads the file (lines 22-27)
StoppedInDump ==
    \E param \in Params, response \in Responses :
        /\ param.isStr
        /\ Sha256Hex(param.s) \notin Keys(geoCache)
        /\ ~get_geocoding(param, response).raised
        /\ boots < MaxBoots
        /\ ReachesGeocoder(param) => apiCalls[param.s] < MaxApiCalls
        /\ \E n \in 0..Len(geoCache) :
              geoFile' = [exists |-> TRUE,
                          json |-> Unfinished(
                              JsonDump(cache_store(geoCache, Sha256Hex(param.s),
                                                   get_geocoding(param, response).v)), n)]
        /\ apiCalls' = IF ReachesGeocoder(param)
                       THEN [apiCalls EXCEPT ![param.s] = @ + 1]
                       ELSE apiCalls
        /\ boots' = boots + 1
        /\ hasToken' \in BOOLEAN
        /\ geoCache' = persist_load(geoFile')
        /\ lastCall' = [NoCall EXCEPT !.kind = "boot"]
        /\ UNCHANGED <<storeVars, limitVars, pageVars, cleanVars, retentionVars, poolVars, fetchVars>>

NextGeoStopping == GetGeocoding \/ Restart \/ StoppedInDump

SpecGeoStopping == InitGeo /\ [][NextGeoStopping]_vars

\* C24: whatever the process does, stopping in the middle of a rewrite
\* included, every entry that a start would have loaded from the cache file
\* before the step is still loaded from the file after it.
C24_AtomicRewrite ==
    [][\A k \in Keys(persist_load(geoFile)) :
           /\ k \in Keys(persist_load(geoFile'))
           /\ Get(persist_load(geoFile'), k) = Get(persist_load(geoFile), k)]_vars


\* the quarterly share table before its interpolation pass (lines 82-91)
Uninterpolated ==
    infer_objects(retention_pct_origin(members, RetentionColumns.JOIN_QUARTER,
                                       RetentionColumns.MEMBERSHIP_LENGTH_YEARS))

\* C26: every cell that the interpolation pass of retention_pct_quarter has
\* filled is the first missing cell of a gap of its cohort row: the cell of
\* the next shorter tenure and some cell of a longer tenure of that row were
\* populated before the pass.
C26_FillsInsideTheRow ==
    pivoted.op = "retention_pct_quarter" =>
        \A r \in DOMAIN pivoted.table.index : \A c \in DOMAIN pivoted.table.columns :
            (Populated(pivoted.table, r, c) /\ ~Populated(Uninterpolated, r, c)) =>
                /\ c > 1
                /\ Populated(Uninterpolated, r, c - 1)
                /\ \E d \in (c + 1)..Len(pivoted.table.columns) :
                       Populated(Uninterpolated, r, d)

----------------------------------------------------------------------------
(* The background fetch of a new list (src/src/app.py lines 13-14, 51-91,  *)
(* src/src/components/sidebar.py line 49).  start_fetch and                *)
(* poll_fetch_status are Dash callbacks, _run_fetch is the target of the   *)
(* thread that start_fetch starts.  A status text is the sequence of the   *)
(* parts it is made of.                                                     *)

MaxClicks == 3      \* clicks on the button

Fetching == <<"Fetching...">>

Done == <<"Done. Reload to update dropdowns.">>

\* line 59: f"Error: {e}"
ErrorStatus(e) == <<"Error: ", e>>

\* what fetch_list() does: it returns, it raises the RuntimeError of lines
\* 22-24, or a call of selenium raises its own exception
FetchListOutcomes ==
    {[raised |-> "no", e |-> ""],
     [raised |-> "RuntimeError", e |-> "Missing required environment variables."],
     [raised |-> "TimeoutException", e |-> "Message: "]}

\* what get_membership_lists() does: it returns, or reading the list
\* directory raises
GetMembershipListsOutcomes ==
    {[raised |-> "no", e |-> ""],
     [raised |-> "FileNotFoundError", e |-> "No such file or directory"]}

\* line 57: except RuntimeError
Caught(outcome) == outcome.raised = "RuntimeError"

\* faulty variant: a fetch is started whatever the state says
start_always(state) == TRUE

\* lines 67-68: start_fetch goes on unless a fetch is running
may_start(state) == ~state.running

\* faulty variant: the state is left as it is when the thread ends
finally_skipped(state) == state

\* lines 60-62: the finally clause
finally(state) == [state EXCEPT !.running = FALSE]

\* the state when the module is imported and the page is laid out
InitFetch ==
    /\ archive = {}
    /\ pklState = "missing"
    /\ pkl = <<>>
    /\ branchFile = FALSE
    /\ MEMB_LISTS = <<>>
    /\ lastRun = NoRun
    /\ geoFile = [exists |-> FALSE, json |-> <<>>]
    /\ geoCache = <<>>
    /\ hasToken = FALSE
    /\ apiCalls = [a \in {} |-> 0]
    /\ boots = 0
    /\ lastCall = <<>>
    /\ elapsed = 0
    /\ num_calls = 0
    /\ served = 0
    /\ caller = NoCaller
    /\ lastView = NoView
    /\ raw = NoTable
    /\ frame = NoTable
    /\ stage = "unused"
    /\ members = <<>>
    /\ pivoted = NoPivot
    /\ resolver = "none"
    /\ workers = <<>>
    /\ cache_lock = 0
    /\ poolCache = <<>>
    /\ poolFile = [exists |-> FALSE, json |-> <<>>]
    /\ poolCalls = <<>>
    /\ _fetch_state = [running |-> FALSE, status |-> <<>>]
    /\ threads = <<>>
    /\ poll = [disabled |-> TRUE, children |-> <<>>]
    /\ n_clicks = 0

Others == <<storeVars, geoVars, limitVars, pageVars, cleanVars, retentionVars, poolVars>>

\* start_fetch, lines 65-78: a click on the button
StartFetch ==
    /\ n_clicks < MaxClicks
    /\ n_clicks' = n_clicks + 1
    /\ IF may_start(_fetch_state)
       THEN /\ _fetch_state' = [running |-> TRUE, status |-> Fetching]
            /\ threads' = Append(threads, [pc |-> "fetch_list", raised |-> "no", e |-> ""])
            /\ poll' = [disabled |-> FALSE, children |-> Fetching]
       ELSE /\ poll' = [disabled |-> FALSE, children |-> _fetch_state.status]
            /\ UNCHANGED <<_fetch_state, threads>>
    /\ UNCHANGED Others

\* where a thread goes when a statement of the try block raises
Raised(t, outcome) ==
    [threads EXCEPT ![t] = [pc |-> IF Caught(outcome) THEN "except" ELSE "finally",
                            raised |-> outcome.raised, e |-> outcome.e]]

\* line 53: fetch_list()
RunFetchList == \E t \in DOMAIN threads :
    /\ threads[t].pc = "fetch_list"
    /\ \E outcome \in FetchListOutcomes :
          threads' = IF outcome.raised = "no"
                     THEN [threads EXCEPT ![t].pc = "get_membership_lists"]
                     ELSE Raised(t, outcome)
    /\ UNCHANGED <<_fetch_state, poll, n_clicks>>
    /\ UNCHANGED Others

\* line 54: scan_lists.MEMB_LISTS = get_membership_lists(...); the list
\* directory of this specification is empty and so is the mapping returned
RunGetMembershipLists == \E t \in DOMAIN threads :
    /\ threads[t].pc = "get_membership_lists"
    /\ \E outcome \in GetMembershipListsOutcomes :
          threads' = IF outcome.raised = "no"
                     THEN [threads EXCEPT ![t].pc = "done"]
                     ELSE Raised(t, outcome)
    /\ UNCHANGED <<_fetch_state, poll, n_clicks>>
    /\ UNCHANGED Others

\* lines 55-56
RunDone == \E t \in DOMAIN threads :
    /\ threads[t].pc = "done"
    /\ _fetch_state' = [_fetch_state EXCEPT !.status = Done]
    /\ threads' = [threads EXCEPT ![t].pc = "finally"]
    /\ UNCHANGED <<poll, n_clicks>>
    /\ UNCHANGED Others

\* lines 57-59
RunExcept == \E t \in DOMAIN threads :
    /\ threads[t].pc = "except"
    /\ _fetch_state' = [_fetch_state EXCEPT !.status = ErrorStatus(threads[t].e)]
    /\ threads' = [threads EXCEPT ![t] = [pc |-> "finally", raised |-> "no", e |-> ""]]
    /\ UNCHANGED <<poll, n_clicks>>
    /\ UNCHANGED Others

\* lines 60-62, the last statement of _run_fetch: the thread ends, with the
\* exception that nothing caught if there is one
RunFinally == \E t \in DOMAIN threads :
    /\ threads[t].pc = "finally"
    /\ _fetch_state' = finally(_fetch_state)
    /\ threads' = [threads EXCEPT ![t].pc = "ended"]
    /\ UNCHANGED <<poll, n_clicks>>
    /\ UNCHANGED Others

\* _run_fetch, one statement of one thread
RunFetch == RunFetchList \/ RunGetMembershipLists \/ RunDone \/ RunExcept \/ RunFinally

\* poll_fetch_status, lines 81-91: the dcc.Interval fires while it is not
\* disabled, and the two values returned are written to the page
PollFetchStatus ==
    /\ ~poll.disabled
    /\ poll' = [disabled |-> _fetch_state.running, children |-> _fetch_state.status]
    /\ UNCHANGED <<_fetch_state, threads, n_clicks>>
    /\ UNCHANGED Others

NextFetch ==
    \/ StartFetch
    \/ RunFetchList \/ RunGetMembershipLists \/ RunDone \/ RunExcept \/ RunFinally
    \/ PollFetchStatus

SpecFetch == InitFetch /\ [][NextFetch]_vars

\* a started thread runs its statements (each of them ends: the waits of
\* fetch_list have timeouts), and an enabled Interval fires every second
FairFetch == SpecFetch /\ WF_vars(RunFetch) /\ WF_vars(PollFetchStatus)

\* the threads that have not ended
Active == {t \in DOMAIN threads : threads[t].pc # "ended"}


\* C27: after every step at most one thread of _run_fetch has not ended, and a
\* click on the button while _fetch_state["running"] is True starts no thread
\* and leaves _fetch_state as it is.
C27_OneFetchThread ==
    [][/\ Cardinality(Active') <= 1
       /\ (n_clicks' # n_clicks /\ _fetch_state.running)
              => (threads' = threads /\ _fetch_state' = _fetch_state)]_vars

\* a fetch has ended, a second one is running and a click was turned down
C27_Witness ==
    /\ Len(threads) = 2
    /\ Active = {2}
    /\ _fetch_state.running
    /\ n_clicks > Len(threads)

\* C28: the Interval is enabled whenever a fetch is running, and once the
\* started fetches have ended the page comes to show the status they left.
C28_PollsUntilFinalStatus ==
    /\ [](_fetch_state.running => ~poll.disabled)
    /\ (threads # <<>> /\ Active = {})
           ~> (Active = {} /\ poll.children = _fetch_state.status)

\* C29: when no fetch is running and one has been started, the status is the
\* text of success or begins with "Error: ".
C29_FinalStatus ==
    (threads # <<>> /\ ~_fetch_state.running)
        => (_fetch_state.status = Done \/ _fetch_state.status[1] = "Error: ")

\* C30: a fetch that is running is followed by _fetch_state["running"] being
\* False, and a click made when no thread is left starts a new fetch.
C30_RunningIsReset ==
    /\ _fetch_state.running ~> ~_fetch_state.running
    /\ [][(n_clicks' # n_clicks /\ Active = {})
              => (Len(threads') = Len(threads) + 1 /\ _fetch_state'.running)]_vars

\* each way out of _run_fetch has been taken by a fetch that ended, and a
\* fetch started after one that ended with an exception nothing caught
C30_Witness ==
    /\ Len(threads) = 3
    /\ Active = {}
    /\ ~_fetch_state.running
    /\ threads[1].raised = "TimeoutException"
    /\ threads[2].raised = "no"
    /\ _fetch_state.status # Done

====
